---------------------------- MODULE FundingProofs ----------------------------
(***************************************************************************)
(* For any number of instructions, transfers and concurrent workers, with  *)
(* failures at any point: Funding keeps its types, reconciles only what is *)
(* backed by credited money, and implements Reconciliation.                *)
(***************************************************************************)
EXTENDS Funding, SumProofs

\* A nonempty set of natural numbers has a first member.
LEMMA FirstMember ==
    ASSUME NEW S, S \subseteq Nat, S # {}
    PROVE  First(S) \in S
BY LeastMember DEF First

\* A worker inside applyObservation works on an instruction that exists, on
\* a signature that is new or of a transfer, and, in a scan, on a transfer
\* sent to that instruction.
LEMMA AtWork ==
    ASSUME TypeOK, NEW w \in Workers, job[w].step \in Applying
    PROVE  /\ Instr(w) \in Instructions /\ Exists(Instr(w))
           /\ Current(w) \in job[w].todo /\ Current(w) \in Keys
           /\ job[w].typed \in Nat
           /\ ~ ByHand(w) => /\ job[w].typed = 0 /\ Current(w) \in Deposits
                             /\ sentTo[Current(w)] = Instr(w)
           /\ Paid(w) \in Nat /\ Paid(w) > 0
           /\ job[w].seen \in Nat
           /\ expectedAmount[Instr(w)] \in Nat
           /\ credited[Instr(w)] \in Nat
<1>1. job[w] \in Jobs
  BY DEF TypeOK
<1>2. Instr(w) # Nobody /\ Exists(Instr(w)) /\ job[w].todo # {}
  BY DEF TypeOK, JobOK
<1>3. /\ Instr(w) \in Instructions /\ job[w].todo \subseteq Keys
      /\ job[w].seen \in Nat /\ job[w].typed \in Nat
  BY <1>1, <1>2 DEF Jobs, Instr
<1>4. Current(w) \in job[w].todo
  BY <1>2, <1>3, FirstMember, DepositsAssumption, NotesAssumption DEF Current, Keys
<1>5. expectedAmount[Instr(w)] \in Nat /\ credited[Instr(w)] \in Nat
  BY <1>3 DEF TypeOK, DataOK
<1>6. \A d \in Deposits : AmountOf[d] \in Nat /\ AmountOf[d] > 0
  BY DepositsAssumption
<1>7. ~ ByHand(w) => job[w].typed = 0 /\ Current(w) \in Deposits /\ sentTo[Current(w)] = Instr(w)
  BY <1>3, <1>4 DEF TypeOK, JobOK, ByHand
<1>8. Paid(w) \in Nat /\ Paid(w) > 0
  BY <1>3, <1>6, <1>7 DEF Paid, ByHand
<1> QED BY <1>2, <1>3, <1>4, <1>5, <1>7, <1>8

\* The status, the total and the surplus a worker computes.
LEMMA Computed ==
    ASSUME TypeOK, NEW w \in Workers, job[w].step \in Applying
    PROVE  /\ NextStatus(w) \in {"partial", "reconciled"}
           /\ SurplusDelta(w) \in Nat
           /\ NextStatus(w) = "reconciled" =>
                 /\ job[w].seen + Paid(w) > 0
                 /\ job[w].seen + Paid(w) >= expectedAmount[Instr(w)]
<1> DEFINE seen == job[w].seen
           paid == Paid(w)
           asked == expectedAmount[Instr(w)]
<1>1. seen \in Nat /\ paid \in Nat /\ paid > 0 /\ asked \in Nat
  BY AtWork
<1> HIDE DEF seen, paid, asked
<1>2. FundingStatus(seen + paid, asked) \in {"partial", "reconciled"}
  BY <1>1 DEF FundingStatus
<1>3. FundingStatus(seen + paid, asked) = "reconciled" => seen + paid > 0 /\ seen + paid >= asked
  BY <1>1 DEF FundingStatus
<1>4. Excess(seen + paid, asked) - Excess(seen, asked) \in Nat
  BY <1>1 DEF Excess
<1> QED BY <1>2, <1>3, <1>4 DEF NextStatus, NextCredited, SurplusDelta, seen, paid, asked

-------------------------------------------------------------------------------
\* What was in place before a step is there after it: every action but Send
\* and EnsureCreate leaves both parts alone.
Grows ==
    /\ \A i \in Instructions : Exists(i) => Exists(i)' /\ expectedAmount'[i] = expectedAmount[i]
    /\ \A d \in Deposits : sentTo[d] # Nobody => sentTo'[d] = sentTo[d]

\* A step leaves the jobs of the workers that do not take it sound.
LEMMA OthersOK ==
    ASSUME TypeOK, Grows, NEW v \in Workers, job'[v] = job[v]
    PROVE  JobOK(v)'
<1>1. job'[v] = job[v] /\ job[v] \in Jobs /\ JobOK(v)
  BY DEF TypeOK
<1>2. CASE job[v].step \notin Applying
  BY <1>1, <1>2 DEF JobOK, At
<1>3. CASE job[v].step \in Applying
  <2>1. Instr(v) \in Instructions
    BY <1>1, <1>3, AtWork
  <2>2. Instr(v)' = Instr(v) /\ (ByHand(v)' <=> ByHand(v)) /\ Current(v)' = Current(v)
    BY <1>1 DEF Instr, ByHand, Current
  <2>3. Exists(Instr(v))'
    BY <1>1, <1>3, <2>1, <2>2 DEF Grows, Exists, JobOK
  <2>4. IF ByHand(v)' THEN job'[v].todo = {Current(v)'}
        ELSE \A d \in job'[v].todo : d \in Deposits /\ sentTo'[d] = Instr(v)'
    BY <1>1, <1>3, <2>1, <2>2, NobodyAssumption DEF Grows, JobOK
  <2> QED BY <1>1, <1>3, <2>1, <2>2, <2>3, <2>4, NobodyAssumption DEF JobOK, At
<1> QED BY <1>2, <1>3

\* A worker inside applyObservation that goes idle, or stays with the
\* instruction and part of its transfers, is sound after the step.
LEMMA ContinueOK ==
    ASSUME TypeOK, Grows, NEW w \in Workers, job[w].step \in Applying,
           NEW j \in Jobs, job' = [job EXCEPT ![w] = j],
           j.step \notin {"check", "create", "mark"},
           \/ j = Idle
           \/ /\ j.instr = Instr(w) /\ j.todo # {} /\ j.todo \subseteq job[w].todo
              /\ j.typed = job[w].typed
    PROVE  job' \in [Workers -> Jobs] /\ \A v \in Workers : JobOK(v)'
<1>1. job' \in [Workers -> Jobs] /\ job'[w] = j
  BY DEF TypeOK
<1>2. JobOK(w)'
  <2>1. CASE j = Idle
    BY <1>1, <2>1 DEF JobOK, At, Idle, Applying, Recorded
  <2>2. CASE /\ j.instr = Instr(w) /\ j.todo # {} /\ j.todo \subseteq job[w].todo
             /\ j.typed = job[w].typed
    <3>1. Instr(w) \in Instructions /\ Instr(w) # Nobody /\ Exists(Instr(w))
      BY AtWork, NobodyAssumption
    <3>2. IF ByHand(w) THEN job[w].todo = {Current(w)}
          ELSE \A d \in job[w].todo : d \in Deposits /\ sentTo[d] = Instr(w)
      BY DEF TypeOK, JobOK
    <3>3. Instr(w)' = Instr(w) /\ (ByHand(w)' <=> ByHand(w))
      BY <1>1, <2>2 DEF Instr, ByHand
    <3>4. Exists(Instr(w))'
      BY <3>1, <3>3 DEF Grows, Exists
    <3>5. CASE ~ ByHand(w)
      <4>1. \A d \in job'[w].todo : d \in Deposits /\ sentTo'[d] = Instr(w)'
        BY <1>1, <2>2, <3>1, <3>2, <3>3, <3>5 DEF Grows
      <4> QED BY <1>1, <2>2, <3>1, <3>3, <3>4, <3>5, <4>1 DEF JobOK, At
    <3>6. CASE ByHand(w)
      <4>1. job'[w].todo = job[w].todo
        BY <1>1, <2>2, <3>2, <3>6
      <4>2. job'[w].todo = {Current(w)'}
        BY <3>2, <3>6, <4>1 DEF Current
      <4> QED BY <1>1, <2>2, <3>1, <3>3, <3>4, <3>6, <4>2 DEF JobOK, At
    <3> QED BY <3>5, <3>6
  <2> QED BY <2>1, <2>2
<1>3. \A v \in Workers : v # w => job'[v] = job[v]
  BY DEF TypeOK
<1> QED BY <1>1, <1>2, <1>3, OthersOK

\* The three ways to leave a step of applyObservation.
LEMMA MoveOK ==
    ASSUME TypeOK, Grows, NEW w \in Workers, job[w].step \in Applying,
           Stop(w) \/ TurnToNext(w) \/ \E s \in Applying : GoTo(w, s)
    PROVE  job' \in [Workers -> Jobs] /\ \A v \in Workers : JobOK(v)'
<1>1. job[w] \in Jobs /\ job[w].todo # {} /\ Instr(w) \in Instructions
  BY AtWork DEF TypeOK
<1>6. ByHand(w) => job[w].todo = {Current(w)}
  BY DEF TypeOK, JobOK
<1>2. Idle \in Jobs
  BY DEF Idle, Jobs, Steps, Applying, Recorded
<1>3. CASE Stop(w)
  BY <1>2, <1>3, ContinueOK DEF Stop, Idle
<1>4. CASE TurnToNext(w)
  <2> DEFINE rest == job[w].todo \ {Current(w)}
             j == [Idle EXCEPT !.step = "lookup", !.instr = Instr(w), !.todo = rest]
  <2>1. /\ j \in Jobs /\ j.instr = Instr(w) /\ j.todo = rest /\ j.typed = 0
        /\ j.step \notin {"check", "create", "mark"}
    BY <1>1 DEF Idle, Jobs, Steps, Applying, Recorded
  <2>2. CASE rest = {}
    BY <1>3, <1>4, <2>2 DEF TurnToNext
  <2>3. CASE rest # {}
    <3>1. job' = [job EXCEPT ![w] = j]
      BY <1>4, <2>3 DEF TurnToNext
    <3>2. job[w].typed = 0
      BY <1>1, <1>6, <2>3, AtWork DEF ByHand
    <3> HIDE DEF j
    <3> QED BY <2>1, <2>3, <3>1, <3>2, ContinueOK
  <2> QED BY <2>2, <2>3
<1>5. ASSUME NEW s \in Applying, GoTo(w, s)
      PROVE  job' \in [Workers -> Jobs] /\ \A v \in Workers : JobOK(v)'
  <2> DEFINE j == [job[w] EXCEPT !.step = s]
  <2>1. /\ j \in Jobs /\ j.instr = Instr(w) /\ j.todo = job[w].todo /\ j.typed = job[w].typed
        /\ j.step \notin {"check", "create", "mark"}
    BY <1>1 DEF Jobs, Instr, Steps, Applying, Recorded
  <2>2. job' = [job EXCEPT ![w] = j]
    BY <1>5 DEF GoTo
  <2> HIDE DEF j
  <2> QED BY <1>1, <2>1, <2>2, ContinueOK
<1> QED BY <1>3, <1>4, <1>5

\* A service with an empty database is well typed.
LEMMA InitTypeOK == Init => TypeOK
BY TrustedAssumption DEF Init, recorded, ByHand, TypeOK, DataOK, JobOK, At, Idle, Jobs, Steps, Applying, Recorded

\* An idle worker that starts a request is sound, and so are the others.
LEMMA StartOK ==
    ASSUME TypeOK, Grows, NEW w \in Workers, NEW j \in Jobs, job' = [job EXCEPT ![w] = j],
           \/ j.step = "idle"
           \/ j.step \in {"check", "create", "mark"} /\ j.batch # Nobody
           \/ /\ j.step = "lookup" /\ j.instr \in Instructions /\ Exists(j.instr)
              /\ j.todo # {}
              /\ IF j.typed > 0 THEN j.todo = {First(j.todo)}
                 ELSE \A d \in j.todo : d \in Deposits /\ sentTo[d] = j.instr
    PROVE  job' \in [Workers -> Jobs] /\ \A v \in Workers : JobOK(v)'
<1>1. /\ job' \in [Workers -> Jobs] /\ job'[w] = j
      /\ \A v \in Workers : v # w => job'[v] = job[v]
  BY DEF TypeOK
<1>2. CASE j.step = "idle" \/ (j.step \in {"check", "create", "mark"} /\ j.batch # Nobody)
  BY <1>1, <1>2, OthersOK DEF JobOK, At, Applying, Recorded
<1>3. CASE /\ j.step = "lookup" /\ j.instr \in Instructions /\ Exists(j.instr)
           /\ j.todo # {}
           /\ IF j.typed > 0 THEN j.todo = {First(j.todo)}
              ELSE \A d \in j.todo : d \in Deposits /\ sentTo[d] = j.instr
  <2>1. /\ Instr(w)' = j.instr /\ j.instr # Nobody
        /\ ByHand(w)' <=> j.typed > 0
        /\ Current(w)' = First(j.todo)
    BY <1>1, <1>3, NobodyAssumption DEF Instr, ByHand, Current
  <2>2. Exists(Instr(w))'
    BY <1>3, <2>1 DEF Grows, Exists
  <2>3. IF ByHand(w)' THEN job'[w].todo = {Current(w)'}
        ELSE \A d \in job'[w].todo : d \in Deposits /\ sentTo'[d] = Instr(w)'
    BY <1>1, <1>3, <2>1 DEF Grows
  <2>4. JobOK(w)'
    BY <1>1, <1>3, <2>1, <2>2, <2>3 DEF JobOK, At
  <2> QED BY <1>1, <2>4, OthersOK
<1> QED BY <1>1, <1>2, <1>3

\* The steps of a worker inside applyObservation keep the types.
LEMMA ApplyTypeOK ==
    ASSUME TypeOK, NEW w \in Workers,
           \/ Lookup(w) \/ ReadCredited(w) \/ Insert(w) \/ PostReceived(w) \/ UpdateStatus(w)
           \/ (\E throws \in BOOLEAN : Apply(w, throws))
           \/ Notice(w) \/ PostReserved(w) \/ PostSurplus(w)
    PROVE  TypeOK' /\ Grows
<1> USE DEF instrVars, moneyVars, ledgerVars, worldVars, toldVars
<1>1. job[w].step \in Applying
  BY DEF At, Applying, Recorded, Lookup, ReadCredited, Insert, PostReceived, UpdateStatus,
         Apply, Notice, PostReserved, PostSurplus
<1>2. Grows
  BY DEF Grows, Exists, Lookup, ReadCredited, Insert, PostReceived, UpdateStatus, Apply,
         Notice, PostReserved, PostSurplus
<1> DEFINE i == Instr(w)
           d == Current(w)
<1>3. /\ i \in Instructions /\ d \in Keys /\ Paid(w) \in Nat /\ job[w].typed \in Nat
      /\ NextStatus(w) \in {"partial", "reconciled"} /\ SurplusDelta(w) \in Nat
      /\ Exists(i)
  BY <1>1, AtWork, Computed
<1> DEFINE JobsOK == job \in [Workers -> Jobs] /\ \A v \in Workers : JobOK(v)
<1> HIDE DEF i, d
<1>4. CASE Lookup(w)
  <2>1. JobsOK'
    BY <1>1, <1>2, <1>4, MoveOK DEF Lookup, Applying
  <2> QED BY <1>2, <1>4, <2>1 DEF Lookup, TypeOK, DataOK, Exists, recorded
<1>5. CASE ReadCredited(w)
  <2> DEFINE j == [job[w] EXCEPT !.step = "insert", !.seen = credited[Instr(w)],
                                 !.ok = Accepts(Source(w))]
  <2>1. job[w] \in Jobs /\ credited[Instr(w)] \in Nat /\ job[w].todo # {}
    BY <1>1, AtWork DEF TypeOK
  <2>2. Accepts(Source(w)) \in BOOLEAN
    BY DEF Accepts
  <2>3. /\ j \in Jobs /\ j.instr = Instr(w) /\ j.todo = job[w].todo /\ j.typed = job[w].typed
        /\ j.step \notin {"check", "create", "mark"}
    BY <2>1, <2>2 DEF Jobs, Steps, Applying, Instr
  <2>4. job' = [job EXCEPT ![w] = j]
    BY <1>5 DEF ReadCredited
  <2> HIDE DEF j
  <2>5. JobsOK'
    BY <1>1, <1>2, <2>1, <2>3, <2>4, ContinueOK
  <2> QED BY <1>2, <1>5, <2>5 DEF ReadCredited, TypeOK, DataOK, Exists, recorded
<1>6. CASE Insert(w)
  <2>1. JobsOK'
    BY <1>1, <1>2, <1>6, MoveOK DEF Insert, Applying, Recorded
  <2>3. /\ credited' \in [Instructions -> Nat]
        /\ \A k \in Instructions : credited'[k] # 0 => batchOf'[k] # Nobody
    BY <1>3, <1>6 DEF Insert, TypeOK, DataOK, Exists, recorded, d, i
  <2>2. CASE UNCHANGED moneyVars
    BY <1>2, <1>6, <2>1, <2>2 DEF Insert, TypeOK, DataOK, Exists, recorded
  <2>4. CASE Record(w)
    <3>1. /\ recordedFor' = [recordedFor EXCEPT ![d] = i]
          /\ typed' = [typed EXCEPT ![d] = job[w].typed]
      BY <2>4 DEF Record, d, i
    <3>2. recordedFor' \in [Keys -> Instructions \cup {Nobody}] /\ typed' \in [Keys -> Nat]
      BY <1>3, <3>1 DEF TypeOK, DataOK
    <3>3. recorded' = recorded \cup {d}
      BY <1>3, <3>1, NobodyAssumption DEF TypeOK, DataOK, recorded
    <3>4. rejected' \subseteq recorded'
      BY <1>6, <3>3 DEF Insert, TypeOK, DataOK, d
    <3> QED BY <1>2, <1>6, <2>1, <2>3, <3>2, <3>4 DEF Insert, TypeOK, DataOK, Exists, recorded
  <2> QED BY <1>6, <2>2, <2>4 DEF Insert
<1>7. CASE PostReceived(w)
  <2>1. JobsOK'
    BY <1>1, <1>2, <1>7, MoveOK DEF PostReceived, Applying, Recorded
  <2>2. received' \in [Instructions -> Nat]
    BY <1>3, <1>7 DEF PostReceived, TypeOK, DataOK, d, i
  <2> QED BY <1>2, <1>7, <2>1, <2>2 DEF PostReceived, TypeOK, DataOK, Exists, recorded
<1>8. CASE UpdateStatus(w)
  <2>1. JobsOK'
    BY <1>1, <1>2, <1>8, MoveOK DEF UpdateStatus, Applying, Recorded
  <2>2. instrStatus' \in [Instructions -> {"pending", "partial", "reconciled"}]
    BY <1>3, <1>8 DEF UpdateStatus, TypeOK, DataOK, i
  <2> QED BY <1>2, <1>8, <2>1, <2>2 DEF UpdateStatus, TypeOK, DataOK, Exists, recorded
<1>9. ASSUME NEW throws \in BOOLEAN, Apply(w, throws)
      PROVE  TypeOK'
  <2>1. JobsOK'
    BY <1>1, <1>2, <1>9, MoveOK DEF Apply, Applying, Recorded
  <2>2. applied' \in [Instructions -> {"none", "partial", "reconciled"}]
    BY <1>3, <1>9 DEF Apply, TypeOK, DataOK, i
  <2>3. covered' \subseteq Instructions
    BY <1>3, <1>9 DEF Apply, TypeOK, DataOK, i
  <2> QED BY <1>9, <2>1, <2>2, <2>3 DEF Apply, TypeOK, DataOK, Exists, recorded
<1>10. CASE Notice(w)
  <2>1. JobsOK'
    BY <1>1, <1>2, <1>10, MoveOK DEF Notice, Applying, Recorded
  <2>2. incomplete' \subseteq Batches
    <3>1. batchOf[i] \in Batches
      BY <1>3, <1>10 DEF Notice, At, Applying, Recorded, TypeOK, DataOK, Exists, i
    <3> QED BY <1>10, <3>1 DEF Notice, TypeOK, DataOK, i, Instr
  <2> QED BY <1>2, <1>10, <2>1, <2>2 DEF Notice, TypeOK, DataOK, Exists, recorded
<1>11. CASE PostReserved(w)
  <2>1. JobsOK'
    BY <1>1, <1>2, <1>11, MoveOK DEF PostReserved, Applying, Recorded
  <2>2. reserved' \in [Instructions -> Nat]
    BY <1>3, <1>11 DEF PostReserved, TypeOK, DataOK, i
  <2> QED BY <1>2, <1>11, <2>1, <2>2 DEF PostReserved, TypeOK, DataOK, Exists, recorded
<1>12. CASE PostSurplus(w)
  <2>1. JobsOK'
    BY <1>1, <1>2, <1>12, MoveOK DEF PostSurplus
  <2>2. surplus' \in [Instructions -> Nat]
    BY <1>3, <1>12 DEF PostSurplus, TypeOK, DataOK, i
  <2> QED BY <1>2, <1>12, <2>1, <2>2 DEF PostSurplus, TypeOK, DataOK, Exists, recorded
<1> QED BY <1>2, <1>4, <1>5, <1>6, <1>7, <1>8, <1>9, <1>10, <1>11, <1>12

\* A step of applyObservation, of any worker.
Applies(w) ==
    \/ Lookup(w) \/ ReadCredited(w) \/ Insert(w) \/ PostReceived(w) \/ UpdateStatus(w)
    \/ (\E throws \in BOOLEAN : Apply(w, throws))
    \/ Notice(w) \/ PostReserved(w) \/ PostSurplus(w)

\* Any other step that a worker takes.
Starts(w) ==
    \/ \E b \in Batches : EnsureLook(w, b)
    \/ \E amount \in Totals : EnsureCheck(w, amount)
    \/ EnsureRefuse(w) \/ EnsureMark(w)
    \/ \E i \in Instructions : Scan(w, i)
    \/ RecordsManually(w)
    \/ Fail(w)

\* The steps of Next, sorted for the proofs.
Step ==
    \/ \E d \in Deposits, i \in Instructions : Send(d, i)
    \/ \E S \in SUBSET Wallets : UpdateWallets(S) \/ Restart(S)
    \/ \E b \in Batches : ResolveException(b)
    \/ \E w \in Workers :
          (\E i \in Instructions : EnsureCreate(w, i)) \/ Starts(w) \/ Applies(w)

\* Every step of Next is one of Step.
LEMMA NextCases == Next => Step
BY DEF Next, Step, Proceed, Starts, Applies

\* Starts leaves everything but the worker's job alone.
LEMMA StartsTypeOK ==
    ASSUME TypeOK, NEW w \in Workers, Starts(w)
    PROVE  /\ TypeOK' /\ Grows
           /\ UNCHANGED <<instrVars, instrStatus, moneyVars, ledgerVars, incomplete, worldVars,
                           toldVars>>
           /\ \E j \in Jobs : /\ j.step \in {"idle", "check", "create", "lookup"}
                             /\ job' = [job EXCEPT ![w] = j]
<1>1. UNCHANGED <<instrVars, instrStatus, moneyVars, ledgerVars, incomplete, worldVars, toldVars>>
  BY DEF Starts, EnsureLook, EnsureCheck, EnsureRefuse, EnsureMark, Scan, ScanFound,
         RecordsManually, RecordManual, Fail
<1>2. Grows
  BY <1>1 DEF Grows, Exists, instrVars, worldVars
<1> DEFINE Started ==
             \E j \in Jobs :
                /\ job' = [job EXCEPT ![w] = j]
                /\ \/ j.step = "idle"
                   \/ j.step \in {"check", "create"} /\ j.batch # Nobody
                   \/ /\ j.step = "lookup" /\ j.instr \in Instructions /\ Exists(j.instr)
                      /\ j.todo # {}
                      /\ IF j.typed > 0 THEN j.todo = {First(j.todo)}
                         ELSE \A d \in j.todo : d \in Deposits /\ sentTo[d] = j.instr
<1>3. Started
  <2>1. Idle \in Jobs /\ Idle.step = "idle"
    BY DEF Idle, Jobs, Steps, Applying, Recorded
  <2>2. ASSUME NEW b \in Batches, EnsureLook(w, b)
        PROVE  Started
    <3> DEFINE j == [Idle EXCEPT !.step = "check", !.batch = b]
    <3>1. j \in Jobs /\ j.step = "check" /\ j.batch # Nobody
      BY NobodyAssumption DEF Idle, Jobs, Steps, Applying, Recorded
    <3>2. job' = [job EXCEPT ![w] = j]
      BY <2>2 DEF EnsureLook
    <3> QED BY <3>1, <3>2
  <2>3. ASSUME NEW amount \in Totals, EnsureCheck(w, amount)
        PROVE  Started
    <3> DEFINE j == [job[w] EXCEPT !.step = "create", !.ask = amount]
    <3>1. job[w] \in Jobs /\ job[w].batch # Nobody
      BY <2>3 DEF EnsureCheck, At, TypeOK, JobOK
    <3>2. j \in Jobs /\ j.step = "create" /\ j.batch # Nobody
      BY <3>1, TotalsAssumption DEF Jobs, Steps
    <3>3. job' = [job EXCEPT ![w] = j]
      BY <2>3 DEF EnsureCheck
    <3> QED BY <3>2, <3>3
  <2>4. CASE EnsureRefuse(w) \/ EnsureMark(w) \/ Fail(w)
    BY <2>1, <2>4 DEF EnsureRefuse, EnsureMark, Fail, Stop
  <2>5. ASSUME NEW i \in Instructions, Scan(w, i)
        PROVE  Started
    <3>0. PICK found \in SUBSET SentTo(i) : ScanFound(w, i, found)
      BY <2>5 DEF Scan
    <3> DEFINE j == [Idle EXCEPT !.step = "lookup", !.instr = i, !.todo = found]
    <3>1. j \in Jobs /\ j.step = "lookup" /\ j.instr = i /\ j.todo = found /\ j.typed = 0
      BY DEF Idle, Jobs, Steps, Applying, Recorded, SentTo, Keys
    <3>2. job' = [job EXCEPT ![w] = j] /\ Exists(i) /\ found # {}
      BY <3>0 DEF ScanFound
    <3>3. \A d \in found : d \in Deposits /\ sentTo[d] = i
      BY DEF SentTo
    <3> HIDE DEF j
    <3>4. ~ (j.typed > 0) /\ j.instr \in Instructions /\ Exists(j.instr) /\ j.todo # {}
      BY <3>1, <3>2
    <3> QED BY <3>1, <3>2, <3>3, <3>4
  <2>6. ASSUME NEW i \in Instructions, NEW k \in Keys, NEW amount \in Typed,
               RecordManual(w, i, k, amount)
        PROVE  Started
    <3>1. PICK from \in Wallets \cup {Nobody} :
             job' = [job EXCEPT ![w] = [Idle EXCEPT !.step = "lookup", !.instr = i, !.todo = {k},
                                                    !.typed = amount, !.from = from]]
      BY <2>6 DEF RecordManual, TypeOK, DataOK
    <3> DEFINE j == [Idle EXCEPT !.step = "lookup", !.instr = i, !.todo = {k},
                                 !.typed = amount, !.from = from]
    <3>2. Exists(i) /\ amount \in Nat /\ amount > 0
      BY <2>6, TypedAssumption DEF RecordManual
    <3>3. j \in Jobs /\ j.step = "lookup" /\ j.instr = i /\ j.todo = {k} /\ j.typed = amount
      BY <3>2 DEF Idle, Jobs, Steps, Applying, Recorded
    <3>4. job' = [job EXCEPT ![w] = j]
      BY <3>1
    <3>5. First({k}) = k
      BY FirstMember, DepositsAssumption, NotesAssumption DEF Keys
    <3> HIDE DEF j
    <3> QED BY <3>2, <3>3, <3>4, <3>5
  <2> QED BY <2>2, <2>3, <2>4, <2>5, <2>6 DEF Starts, RecordsManually
<1>4. job' \in [Workers -> Jobs] /\ \A v \in Workers : JobOK(v)'
  BY <1>2, <1>3, StartOK
<1>5. TypeOK'
  BY <1>1, <1>4 DEF TypeOK, DataOK, Exists, recorded, instrVars, moneyVars, ledgerVars, worldVars, toldVars
<1> QED BY <1>1, <1>2, <1>3, <1>5

\* Types, and what is in place, are kept by every step.
LEMMA NextTypeOK == TypeOK /\ [Step]_vars => TypeOK' /\ Grows
<1> SUFFICES ASSUME TypeOK, [Step]_vars PROVE TypeOK' /\ Grows
  OBVIOUS
<1> USE DEF instrVars, moneyVars, ledgerVars, worldVars, toldVars
<1>1. ASSUME NEW d \in Deposits, NEW i \in Instructions, Send(d, i)
      PROVE  TypeOK' /\ Grows
  <2>1. Grows
    BY <1>1 DEF Send, Grows, Exists, TypeOK, DataOK, recorded
  <2>2. \A v \in Workers : JobOK(v)'
    BY <1>1, <2>1, OthersOK DEF Send
  <2>3. /\ sentTo' \in [Deposits -> Instructions \cup {Nobody}]
        /\ \A e \in Deposits : sentTo'[e] # Nobody => batchOf'[sentTo'[e]] # Nobody
    BY <1>1 DEF Send, Exists, TypeOK, DataOK, recorded
  <2> QED BY <1>1, <2>1, <2>2, <2>3 DEF Send, Exists, TypeOK, DataOK, recorded
<1>2. ASSUME NEW S \in SUBSET Wallets, UpdateWallets(S)
      PROVE  TypeOK' /\ Grows
  <2>1. Grows
    BY <1>2 DEF UpdateWallets, Grows, Exists
  <2>2. \A v \in Workers : JobOK(v)'
    BY <1>2, <2>1, OthersOK DEF UpdateWallets
  <2> QED BY <1>2, <2>1, <2>2 DEF UpdateWallets, Exists, TypeOK, DataOK, recorded
<1>3. ASSUME NEW w \in Workers, NEW i \in Instructions, EnsureCreate(w, i)
      PROVE  TypeOK' /\ Grows
  <2>1. job[w] \in Jobs /\ job[w].batch \in Batches /\ job[w].ask \in Nat
    BY <1>3 DEF EnsureCreate, TypeOK, JobOK, At, Jobs
  <2>2. Grows
    BY <1>3, <2>1, NobodyAssumption DEF EnsureCreate, Grows, Exists, TypeOK, DataOK, recorded
  <2> DEFINE j == [job[w] EXCEPT !.step = "mark"]
  <2>3. j \in Jobs /\ j.step = "mark" /\ j.batch # Nobody
    BY <2>1, NobodyAssumption DEF Jobs, Steps, Applying
  <2>4. job' = [job EXCEPT ![w] = j]
    BY <1>3 DEF EnsureCreate, GoTo
  <2> HIDE DEF j
  <2>5. job' \in [Workers -> Jobs] /\ \A v \in Workers : JobOK(v)'
    BY <2>2, <2>3, <2>4, StartOK
  <2>6. /\ batchOf' \in [Instructions -> Batches \cup {Nobody}]
        /\ expectedAmount' \in [Instructions -> Nat]
        /\ \A d \in Deposits : sentTo'[d] # Nobody => batchOf'[sentTo'[d]] # Nobody
        /\ \A k \in Instructions : credited'[k] # 0 => batchOf'[k] # Nobody
    BY <1>3, <2>1, NobodyAssumption DEF EnsureCreate, Exists, TypeOK, DataOK, recorded
  <2> QED BY <1>3, <2>2, <2>5, <2>6 DEF EnsureCreate, Exists, TypeOK, DataOK, recorded
<1>4. ASSUME NEW w \in Workers, Starts(w)
      PROVE  TypeOK' /\ Grows
  BY <1>4, StartsTypeOK
<1>5. ASSUME NEW w \in Workers, Applies(w)
      PROVE  TypeOK' /\ Grows
  BY <1>5, ApplyTypeOK DEF Applies
<1>6. CASE UNCHANGED vars
  <2>1. Grows
    BY <1>6 DEF vars, Grows, Exists
  <2>2. \A v \in Workers : JobOK(v)'
    BY <1>6, <2>1, OthersOK DEF vars
  <2> QED BY <1>6, <2>1, <2>2 DEF vars, Exists, TypeOK, DataOK, recorded
<1>7. ASSUME NEW S \in SUBSET Wallets, Restart(S)
      PROVE  TypeOK' /\ Grows
  <2>1. Grows
    BY <1>7 DEF Restart, Grows, Exists
  <2>2. job' \in [Workers -> Jobs] /\ \A v \in Workers : JobOK(v)'
    BY <1>7 DEF Restart, JobOK, At, Idle, Jobs, Steps, Applying, Recorded
  <2> QED BY <1>7, <2>1, <2>2 DEF Restart, Exists, TypeOK, DataOK, recorded
<1>8. ASSUME NEW b \in Batches, ResolveException(b)
      PROVE  TypeOK' /\ Grows
  <2>1. Grows
    BY <1>8 DEF ResolveException, Grows, Exists
  <2>2. \A v \in Workers : JobOK(v)'
    BY <1>8, <2>1, OthersOK DEF ResolveException
  <2> QED BY <1>8, <2>1, <2>2 DEF ResolveException, Exists, TypeOK, DataOK, recorded
<1> QED BY <1>1, <1>2, <1>3, <1>4, <1>5, <1>6, <1>7, <1>8 DEF Step

\* Typing: no worker of FundingService acts on an instruction or a transfer
\* that is not there.
THEOREM Typing == Spec => []TypeOK
<1>1. Init => TypeOK
  BY InitTypeOK
<1>2. TypeOK /\ [Next]_vars => TypeOK'
  BY NextTypeOK, NextCases
<1> QED BY <1>1, <1>2, PTL DEF Spec
-------------------------------------------------------------------------------
\* Money credited is never taken back.
CreditGrows == \A i \in Instructions : credited'[i] >= credited[i]

\* What the decision of one worker rests on.
Backed(w) ==
    /\ At(w, "insert") => job[w].seen =< credited[Instr(w)]
    /\ job[w].step \in Recorded => NextCredited(w) =< credited[Instr(w)]

\* The decision of a worker that moves within its transfer, or takes no
\* step, stays backed.
LEMMA BackedStays ==
    ASSUME TypeOK, CreditGrows, NEW w \in Workers, Backed(w), TypeOK',
           \/ job'[w] = job[w]
           \/ /\ job[w].step \in Recorded
              /\ job'[w].instr = job[w].instr /\ job'[w].todo = job[w].todo
              /\ job'[w].seen = job[w].seen /\ job'[w].typed = job[w].typed /\ job'[w].step # "insert"
           \/ job'[w].step \notin Recorded \cup {"insert"}
    PROVE  Backed(w)'
<1>1. CASE job'[w].step \notin Recorded \cup {"insert"}
  BY <1>1 DEF Backed, At
<1>2. CASE job'[w].step \in Recorded \cup {"insert"}
  <2>1. /\ job[w].step \in Applying /\ job'[w].instr = job[w].instr
        /\ job'[w].todo = job[w].todo /\ job'[w].seen = job[w].seen /\ job'[w].typed = job[w].typed
        /\ job'[w].step = "insert" => job[w].step = "insert"
        /\ job'[w].step \in Recorded => job[w].step \in Recorded
    BY <1>2 DEF Applying, Recorded
  <2>2. Instr(w)' = Instr(w) /\ NextCredited(w)' = NextCredited(w)
    BY <2>1 DEF Instr, NextCredited, Current, Paid, ByHand
  <2>3. /\ Instr(w) \in Instructions /\ credited[Instr(w)] \in Nat
        /\ NextCredited(w) \in Nat /\ job[w].seen \in Nat
    BY <2>1, AtWork DEF NextCredited
  <2>4. credited'[Instr(w)] \in Nat /\ credited'[Instr(w)] >= credited[Instr(w)]
    BY <2>3 DEF CreditGrows, TypeOK, DataOK
  <2>5. At(w, "insert")' => job'[w].seen =< credited'[Instr(w)']
    BY <2>1, <2>2, <2>3, <2>4 DEF Backed, At
  <2>6. job'[w].step \in Recorded => NextCredited(w)' =< credited'[Instr(w)']
    BY <2>1, <2>2, <2>3, <2>4 DEF Backed
  <2> QED BY <2>5, <2>6 DEF Backed
<1> QED BY <1>1, <1>2

\* No step takes credit back, and the only worker's step that adds to it is
\* the recording of an accepted transfer.
LEMMA NextCredits ==
    ASSUME TypeOK, [Step]_vars
    PROVE  /\ CreditGrows
           /\ \/ UNCHANGED credited
              \/ \E w \in Workers :
                    /\ Insert(w) /\ job'[w] = [job[w] EXCEPT !.step = "received"]
                    /\ credited' = [credited EXCEPT ![Instr(w)] = @ + Paid(w)]
<1> USE DEF instrVars, moneyVars, ledgerVars, worldVars, toldVars
<1>1. CASE UNCHANGED credited
  BY <1>1 DEF CreditGrows, TypeOK, DataOK
<1>2. ASSUME NEW w \in Workers, Insert(w), credited' # credited
      PROVE  /\ CreditGrows
             /\ job'[w] = [job[w] EXCEPT !.step = "received"]
             /\ credited' = [credited EXCEPT ![Instr(w)] = @ + Paid(w)]
  <2>1. credited' = [credited EXCEPT ![Instr(w)] = @ + Paid(w)] /\ GoTo(w, "received")
    BY <1>2 DEF Insert
  <2>2. Instr(w) \in Instructions /\ Paid(w) \in Nat
    BY <1>2, AtWork DEF Insert, At, Applying
  <2>3. job'[w] = [job[w] EXCEPT !.step = "received"]
    BY <2>1 DEF GoTo, TypeOK
  <2>4. CreditGrows
    BY <2>1, <2>2 DEF CreditGrows, TypeOK, DataOK
  <2> QED BY <2>1, <2>3, <2>4
<1>3. ASSUME NEW d \in Deposits, NEW i \in Instructions, Send(d, i) PROVE UNCHANGED credited
  BY <1>3 DEF Send
<1>4. ASSUME NEW S \in SUBSET Wallets, UpdateWallets(S) \/ Restart(S) PROVE UNCHANGED credited
  BY <1>4 DEF UpdateWallets, Restart
<1>8. ASSUME NEW b \in Batches, ResolveException(b) PROVE UNCHANGED credited
  BY <1>8 DEF ResolveException
<1>5. ASSUME NEW w \in Workers,
             (\E i \in Instructions : EnsureCreate(w, i)) \/ Starts(w)
      PROVE  UNCHANGED credited
  BY <1>5, StartsTypeOK DEF EnsureCreate
<1>6. ASSUME NEW w \in Workers, Applies(w)
      PROVE  Insert(w) \/ UNCHANGED credited
  BY <1>6 DEF Applies, Lookup, ReadCredited, PostReceived, UpdateStatus, Apply, Notice,
              PostReserved, PostSurplus
<1>7. CASE UNCHANGED vars
  BY <1>1, <1>7 DEF vars
<1> QED BY <1>1, <1>2, <1>3, <1>4, <1>5, <1>6, <1>7, <1>8 DEF Step

\* The inductive step of DecisionIsBacked, worker by worker.
LEMMA NextDecision ==
    ASSUME TypeOK, DecisionIsBacked, [Step]_vars
    PROVE  DecisionIsBacked'
<1> USE DEF instrVars, moneyVars, ledgerVars, worldVars, toldVars
<1>1. TypeOK' /\ CreditGrows /\ \A v \in Workers : Backed(v)
  BY NextTypeOK, NextCredits DEF DecisionIsBacked, Backed
<1>2. SUFFICES \A v \in Workers : Backed(v)'
  BY DEF DecisionIsBacked, Backed
<1>3. ASSUME NEW w \in Workers, NEW j, job' = [job EXCEPT ![w] = j], Backed(w)'
      PROVE  \A v \in Workers : Backed(v)'
  <2>1. \A v \in Workers : v # w => job'[v] = job[v]
    BY <1>3 DEF TypeOK
  <2> QED BY <1>1, <1>3, <2>1, BackedStays
<1>4. ASSUME NEW w \in Workers, (\E i \in Instructions : EnsureCreate(w, i)) \/ Starts(w)
      PROVE  \A v \in Workers : Backed(v)'
  <2>1. PICK j : job' = [job EXCEPT ![w] = j] /\ j.step \in {"mark", "idle", "check", "create", "lookup"}
    <3>1. CASE Starts(w)
      BY <3>1, StartsTypeOK
    <3>2. CASE \E i \in Instructions : EnsureCreate(w, i)
      <4>1. job' = [job EXCEPT ![w] = [job[w] EXCEPT !.step = "mark"]] /\ job[w] \in Jobs
        BY <3>2 DEF EnsureCreate, GoTo, TypeOK
      <4>2. [job[w] EXCEPT !.step = "mark"].step = "mark"
        BY <4>1 DEF Jobs
      <4> QED BY <4>1, <4>2
    <3> QED BY <1>4, <3>1, <3>2
  <2>2. job'[w].step \notin Recorded \cup {"insert"}
    BY <2>1 DEF Recorded, TypeOK
  <2>3. Backed(w)'
    BY <1>1, <2>2, BackedStays
  <2> QED BY <1>3, <2>1, <2>3
<1>5. ASSUME NEW w \in Workers, Applies(w)
      PROVE  \A v \in Workers : Backed(v)'
  <2>1. /\ job[w].step \in Applying /\ job[w] \in Jobs
        /\ Instr(w) \in Instructions /\ credited[Instr(w)] \in Nat
        /\ job[w].seen \in Nat /\ Paid(w) \in Nat
    BY <1>5, AtWork DEF Applies, At, Applying, Recorded, Lookup, ReadCredited, Insert,
       PostReceived, UpdateStatus, Apply, Notice, PostReserved, PostSurplus, TypeOK
  <2>2. CASE Stop(w) \/ TurnToNext(w) \/ GoTo(w, "read")
    <3>1. PICK j : job' = [job EXCEPT ![w] = j] /\ j.step \in {"idle", "lookup", "read"}
      <4>1. CASE Stop(w)
        <5>1. job' = [job EXCEPT ![w] = Idle]
          BY <4>1 DEF Stop
        <5>2. Idle.step = "idle"
          BY DEF Idle
        <5> QED BY <5>1, <5>2
      <4>2. CASE TurnToNext(w)
        <5> DEFINE j == [Idle EXCEPT !.step = "lookup", !.instr = Instr(w),
                                     !.todo = job[w].todo \ {Current(w)}]
        <5>1. Stop(w) \/ job' = [job EXCEPT ![w] = j]
          BY <4>2 DEF TurnToNext
        <5>2. j.step = "lookup"
          BY DEF Idle
        <5> QED BY <4>1, <5>1, <5>2
      <4>3. CASE GoTo(w, "read")
        <5> DEFINE j == [job[w] EXCEPT !.step = "read"]
        <5>1. job' = [job EXCEPT ![w] = j]
          BY <4>3 DEF GoTo
        <5>2. j.step = "read"
          BY <2>1 DEF Jobs
        <5> QED BY <5>1, <5>2
      <4> QED BY <2>2, <4>1, <4>2, <4>3
    <3>2. job'[w].step \notin Recorded \cup {"insert"}
      BY <3>1 DEF Recorded, TypeOK
    <3>3. Backed(w)'
      BY <1>1, <3>2, BackedStays
    <3> QED BY <1>3, <3>1, <3>3
  <2>3. CASE ReadCredited(w)
    <3> DEFINE j == [job[w] EXCEPT !.step = "insert", !.seen = credited[Instr(w)],
                                   !.ok = Accepts(Source(w))]
    <3>1. job' = [job EXCEPT ![w] = j] /\ credited' = credited
      BY <2>3 DEF ReadCredited
    <3>2. j.step = "insert" /\ j.seen = credited[Instr(w)] /\ j.instr = Instr(w)
      BY <2>1 DEF Jobs, Instr
    <3> HIDE DEF j
    <3>3. job'[w] = j
      BY <3>1 DEF TypeOK
    <3>4. Backed(w)'
      BY <2>1, <3>1, <3>2, <3>3 DEF Backed, At, Instr, Recorded
    <3> QED BY <1>3, <3>1, <3>4
  <2>4. ASSUME Insert(w), GoTo(w, "received"),
               credited' = [credited EXCEPT ![Instr(w)] = @ + Paid(w)]
        PROVE  \A v \in Workers : Backed(v)'
    <3>1. /\ job'[w].step = "received" /\ job'[w].instr = job[w].instr
          /\ job'[w].todo = job[w].todo /\ job'[w].seen = job[w].seen /\ job'[w].typed = job[w].typed
      BY <2>1, <2>4 DEF Jobs, GoTo, TypeOK
    <3>2. Instr(w)' = Instr(w) /\ NextCredited(w)' = NextCredited(w)
      BY <3>1 DEF Instr, NextCredited, Current, Paid, ByHand
    <3>3. job[w].seen =< credited[Instr(w)]
      BY <1>1, <2>4 DEF Backed, Insert
    <3>4. credited'[Instr(w)] = credited[Instr(w)] + Paid(w)
      BY <2>1, <2>4 DEF TypeOK, DataOK
    <3>5. NextCredited(w) =< credited'[Instr(w)]
      BY <2>1, <3>3, <3>4 DEF NextCredited
    <3>6. Backed(w)'
      BY <3>1, <3>2, <3>5 DEF Backed, At
    <3>7. job' = [job EXCEPT ![w] = [job[w] EXCEPT !.step = "received"]]
      BY <2>4 DEF GoTo
    <3> QED BY <1>3, <3>6, <3>7
  <2>5. ASSUME NEW s \in Recorded, job[w].step \in Recorded, GoTo(w, s)
        PROVE  \A v \in Workers : Backed(v)'
    <3> DEFINE j == [job[w] EXCEPT !.step = s]
    <3>1. job' = [job EXCEPT ![w] = j]
      BY <2>5 DEF GoTo
    <3>2. /\ j.instr = job[w].instr /\ j.todo = job[w].todo /\ j.seen = job[w].seen /\ j.typed = job[w].typed
          /\ j.step # "insert"
      BY <2>1, <2>5 DEF Jobs, Recorded
    <3> HIDE DEF j
    <3>3. job'[w] = j
      BY <3>1 DEF TypeOK
    <3>4. Backed(w)'
      BY <1>1, <2>5, <3>2, <3>3, BackedStays
    <3> QED BY <1>3, <3>1, <3>4
  <2>6. CASE Lookup(w)
    BY <2>2, <2>6 DEF Lookup
  <2>7. CASE Insert(w)
    BY <2>2, <2>4, <2>7 DEF Insert
  <2>8. CASE PostReceived(w) \/ UpdateStatus(w) \/ Notice(w) \/ PostReserved(w)
    <3>1. job[w].step \in Recorded /\ \E s \in Recorded : GoTo(w, s)
      BY <2>8 DEF PostReceived, UpdateStatus, Notice, PostReserved, At, Recorded
    <3> QED BY <2>5, <3>1
  <2>9. CASE \E throws \in BOOLEAN : Apply(w, throws)
    <3>1. job[w].step \in Recorded /\ (Stop(w) \/ GoTo(w, "notice")) /\ "notice" \in Recorded
      BY <2>9 DEF Apply, At, Recorded
    <3> QED BY <2>2, <2>5, <3>1
  <2>10. CASE PostSurplus(w)
    BY <2>2, <2>10 DEF PostSurplus
  <2> QED BY <1>5, <2>3, <2>6, <2>7, <2>8, <2>9, <2>10 DEF Applies
<1>6. ASSUME UNCHANGED job
      PROVE  \A v \in Workers : Backed(v)'
  BY <1>1, <1>6, BackedStays
<1>7. ASSUME \/ \E d \in Deposits, i \in Instructions : Send(d, i)
             \/ \E S \in SUBSET Wallets : UpdateWallets(S)
             \/ \E b \in Batches : ResolveException(b)
             \/ UNCHANGED vars
      PROVE  UNCHANGED job
  BY <1>7 DEF Send, UpdateWallets, ResolveException, vars
<1>8. ASSUME NEW S \in SUBSET Wallets, Restart(S)
      PROVE  \A v \in Workers : Backed(v)'
  BY <1>8 DEF Restart, Backed, At, Idle, Recorded
<1> QED BY <1>4, <1>5, <1>6, <1>7, <1>8 DEF Step

\* The inductive step of ReconciledIsBacked: a status is written from a
\* backed decision, and neither the credit shrinks nor the amount asked for
\* changes behind it.
LEMMA NextBacked ==
    ASSUME TypeOK, DecisionIsBacked, ReconciledIsBacked, [Step]_vars
    PROVE  ReconciledIsBacked'
<1> USE DEF instrVars, moneyVars, ledgerVars, worldVars, toldVars
<1>1. TypeOK' /\ Grows /\ CreditGrows
  BY NextTypeOK, NextCredits
<1>2. SUFFICES ASSUME NEW i \in Instructions, instrStatus'[i] = "reconciled" \/ i \in covered'
      PROVE  credited'[i] > 0 /\ credited'[i] >= expectedAmount'[i]
  BY DEF ReconciledIsBacked
<1>3. /\ credited[i] \in Nat /\ credited'[i] \in Nat /\ credited'[i] >= credited[i]
      /\ expectedAmount[i] \in Nat /\ expectedAmount'[i] \in Nat
  BY <1>1 DEF CreditGrows, TypeOK, DataOK
<1>4. CASE instrStatus[i] = "reconciled" \/ i \in covered
  <2>1. credited[i] > 0 /\ credited[i] >= expectedAmount[i]
    BY <1>4 DEF ReconciledIsBacked
  <2>2. expectedAmount'[i] = expectedAmount[i]
    BY <1>1, <2>1 DEF Grows, TypeOK, DataOK
  <2> QED BY <1>3, <2>1, <2>2
<1>5. ASSUME NEW w \in Workers, UpdateStatus(w) \/ (\E throws \in BOOLEAN : Apply(w, throws)),
             i = Instr(w), NextStatus(w) = "reconciled"
      PROVE  credited'[i] > 0 /\ credited'[i] >= expectedAmount'[i]
  <2>1. /\ job[w].step \in Recorded /\ job[w].step \in Applying
        /\ expectedAmount' = expectedAmount
    BY <1>5 DEF UpdateStatus, Apply, At, Recorded, Applying
  <2>2. NextCredited(w) =< credited[i]
    BY <1>5, <2>1 DEF DecisionIsBacked
  <2>3. /\ NextCredited(w) \in Nat /\ NextCredited(w) > 0
        /\ NextCredited(w) >= expectedAmount[i]
    BY <1>5, <2>1, AtWork, Computed DEF NextCredited
  <2> QED BY <1>3, <2>1, <2>2, <2>3
<1>6. CASE instrStatus[i] # "reconciled" /\ i \notin covered
  <2>1. PICK w \in Workers : /\ UpdateStatus(w) \/ (\E throws \in BOOLEAN : Apply(w, throws))
                            /\ i = Instr(w) /\ NextStatus(w) = "reconciled"
    <3>1. \/ instrStatus' # instrStatus \/ covered' # covered
      BY <1>2, <1>6
    <3>2. ASSUME NEW w \in Workers, UpdateStatus(w)
          PROVE  i = Instr(w) /\ NextStatus(w) = "reconciled"
      BY <1>2, <1>6, <3>2 DEF UpdateStatus, TypeOK, DataOK
    <3>3. ASSUME NEW w \in Workers, NEW throws \in BOOLEAN, Apply(w, throws)
          PROVE  i = Instr(w) /\ NextStatus(w) = "reconciled"
      BY <1>2, <1>6, <3>3 DEF Apply
    <3>4. ASSUME NEW w \in Workers, Applies(w)
          PROVE  \/ UpdateStatus(w) \/ (\E throws \in BOOLEAN : Apply(w, throws))
                 \/ UNCHANGED <<instrStatus, covered>>
      BY <3>4 DEF Applies, Lookup, ReadCredited, Insert, PostReceived, Notice, PostReserved,
                  PostSurplus
    <3>5. ASSUME NEW w \in Workers, (\E k \in Instructions : EnsureCreate(w, k)) \/ Starts(w)
          PROVE  UNCHANGED <<instrStatus, covered>>
      BY <3>5, StartsTypeOK DEF EnsureCreate
    <3>6. ASSUME \/ \E d \in Deposits, k \in Instructions : Send(d, k)
                 \/ \E S \in SUBSET Wallets : UpdateWallets(S) \/ Restart(S)
                 \/ \E b \in Batches : ResolveException(b)
                 \/ UNCHANGED vars
          PROVE  UNCHANGED <<instrStatus, covered>>
      BY <3>6 DEF Send, UpdateWallets, Restart, ResolveException, vars
    <3> QED BY <3>1, <3>2, <3>3, <3>4, <3>5, <3>6 DEF Step
  <2> QED BY <1>5, <2>1
<1> QED BY <1>4, <1>6
\* Before anything happened no decision is pending and nothing is reconciled.
LEMMA InitBacked == Init => DecisionIsBacked /\ ReconciledIsBacked
BY DEF Init, DecisionIsBacked, ReconciledIsBacked, At, Idle, Recorded

\* Backing: whatever overlaps and fails, FundingService reports an
\* instruction as reconciled, in the database and to its project, only when
\* all it asks for is credited, and no worker decides on more than there is.
THEOREM Backing == Spec => [](DecisionIsBacked /\ ReconciledIsBacked)
<1> DEFINE IInv == TypeOK /\ DecisionIsBacked /\ ReconciledIsBacked
<1>1. Init => IInv
  BY InitTypeOK, InitBacked
<1>2. IInv /\ [Next]_vars => IInv'
  BY NextTypeOK, NextDecision, NextBacked, NextCases
<1> QED BY <1>1, <1>2, PTL DEF Spec

\* No worker of FundingService decides on more money than is credited.
THEOREM Decisions == Spec => []DecisionIsBacked
BY Backing, PTL

-------------------------------------------------------------------------------
\* The signatures accepted for an instruction, and what each brings.
Accepted(i) == {k \in recorded \ rejected : recordedFor[k] = i}
Worths == [k \in Keys |-> Worth(k)]

\* Finitely many signatures are recorded, the accepted ones add up to what
\* is credited, and a scan has recorded a transfer for the instruction it was
\* sent to.
CreditInv ==
    /\ IsFiniteSet(recorded)
    /\ \A k \in recorded : typed[k] = 0 => k \in Deposits /\ sentTo[k] = recordedFor[k]
    /\ \A i \in Instructions : credited[i] = SumFunctionOnSet(Worths, Accepted(i))

\* A row is worth what was typed, or else what the transfer pays.
LEMMA WorthInt ==
    ASSUME TypeOK, CreditInv, NEW k \in recorded
    PROVE  Worth(k) \in Int
<1>1. k \in Keys /\ typed[k] \in Nat /\ (typed[k] = 0 => k \in Deposits)
  BY DEF TypeOK, DataOK, CreditInv, recorded
<1>2. k \in Deposits => AmountOf[k] \in Nat
  BY DepositsAssumption
<1> QED BY <1>1, <1>2 DEF Worth

\* CreditInv says of credited amounts what CreditedOnce says.
LEMMA CreditInvImplies == TypeOK /\ CreditInv => CreditedOnce
<1> SUFFICES ASSUME TypeOK, CreditInv, NEW i \in Instructions
             PROVE  /\ credited[i] = SumFunction([k \in Accepted(i) |-> Worth(k)])
                    /\ \A k \in Accepted(i) : typed[k] = 0 => k \in Deposits /\ sentTo[k] = i
  BY DEF CreditedOnce, Accepted
<1> DEFINE mine == Accepted(i)
           paid == [k \in mine |-> Worth(k)]
<1>1. IsFiniteSet(mine)
  BY FS_Subset DEF CreditInv, Accepted
<1>2. SumFunction(paid) = SumFunctionOnSet(paid, mine)
  BY DEF SumFunction
<1>3. \A k \in mine : paid[k] = Worths[k]
  BY DEF Accepted, recorded, Worths
<1>4. \A k \in mine : typed[k] = 0 => k \in Deposits /\ sentTo[k] = i
  BY DEF CreditInv, Accepted
<1> HIDE DEF mine, paid
<1>5. SumFunctionOnSet(paid, mine) = SumFunctionOnSet(Worths, mine)
  BY <1>1, <1>3, SumAgree
<1> QED BY <1>2, <1>4, <1>5 DEF CreditInv, mine, paid

\* What a recording step does to the rows: a signature k that is new gets
\* instruction i and the amount typed, 0 for a scan's transfer, and is
\* rejected, with nothing credited, or credited with what it is worth.
Records(k, i, amount) ==
    /\ recordedFor' = [recordedFor EXCEPT ![k] = i]
    /\ typed' = [typed EXCEPT ![k] = amount]
    /\ sentTo' = sentTo
    /\ amount = 0 => k \in Deposits /\ sentTo[k] = i
    /\ \/ rejected' = rejected \cup {k} /\ credited' = credited
       \/ /\ rejected' = rejected
          /\ credited' = [credited EXCEPT ![i] = @ + (IF amount > 0 THEN amount ELSE AmountOf[k])]

\* A step records nothing, or one signature that is new.
LEMMA NextRecorded ==
    ASSUME TypeOK, [Step]_vars
    PROVE  \/ UNCHANGED moneyVars
           \/ \E k \in Keys \ recorded, i \in Instructions, amount \in Nat : Records(k, i, amount)
<1> USE DEF instrVars, moneyVars, ledgerVars, worldVars, toldVars
<1>1. ASSUME NEW w \in Workers, Insert(w), ~ UNCHANGED moneyVars
      PROVE  \E k \in Keys \ recorded, i \in Instructions, amount \in Nat : Records(k, i, amount)
  <2>1. /\ job[w].step \in Applying /\ Current(w) \in Keys /\ Instr(w) \in Instructions
        /\ job[w].typed \in Nat
        /\ ~ ByHand(w) => /\ job[w].typed = 0 /\ Current(w) \in Deposits
                          /\ sentTo[Current(w)] = Instr(w)
    BY <1>1, AtWork DEF Insert, At, Applying
  <2>2. /\ Current(w) \notin recorded /\ sentTo' = sentTo /\ Record(w)
        /\ \/ rejected' = rejected \cup {Current(w)} /\ credited' = credited
           \/ rejected' = rejected /\ credited' = [credited EXCEPT ![Instr(w)] = @ + Paid(w)]
    BY <1>1 DEF Insert
  <2>3. Records(Current(w), Instr(w), job[w].typed)
    BY <2>1, <2>2 DEF Records, Record, Paid, ByHand
  <2> QED BY <2>1, <2>2, <2>3
<1>2. ASSUME \/ \E d \in Deposits, i \in Instructions : Send(d, i)
             \/ \E S \in SUBSET Wallets : UpdateWallets(S) \/ Restart(S)
             \/ \E b \in Batches : ResolveException(b)
             \/ UNCHANGED vars
      PROVE  UNCHANGED moneyVars
  BY <1>2 DEF Send, UpdateWallets, Restart, ResolveException, vars
<1>3. ASSUME NEW w \in Workers, (\E i \in Instructions : EnsureCreate(w, i)) \/ Starts(w)
      PROVE  UNCHANGED moneyVars
  BY <1>3, StartsTypeOK DEF EnsureCreate
<1>4. ASSUME NEW w \in Workers, Applies(w)
      PROVE  Insert(w) \/ UNCHANGED moneyVars
  BY <1>4 DEF Applies, Lookup, ReadCredited, PostReceived, UpdateStatus, Apply, Notice,
              PostReserved, PostSurplus
<1> QED BY <1>1, <1>2, <1>3, <1>4 DEF Step

\* The inductive step of CreditedOnce.
LEMMA NextCreditInv ==
    ASSUME TypeOK, CreditInv, [Step]_vars
    PROVE  CreditInv'
<1>1. TypeOK' /\ Grows
  BY NextTypeOK
<1>2. \A k \in recorded : typed[k] = 0 => /\ k \in Deposits /\ sentTo'[k] = sentTo[k]
                                         /\ sentTo[k] = recordedFor[k]
  BY <1>1, NobodyAssumption DEF CreditInv, Grows, TypeOK, DataOK, recorded
<1>3. CASE UNCHANGED moneyVars
  <2>1. \A i \in Instructions : Accepted(i)' = Accepted(i)
    BY <1>3 DEF moneyVars, Accepted, recorded
  <2>2. recorded' = recorded /\ Worths' = Worths
    BY <1>3 DEF moneyVars, Worths, Worth, recorded
  <2> QED BY <1>2, <1>3, <2>1, <2>2 DEF moneyVars, CreditInv
<1>4. ASSUME NEW k \in Keys \ recorded, NEW i \in Instructions, NEW amount \in Nat,
             Records(k, i, amount)
      PROVE  CreditInv'
  <2> DEFINE worth == IF amount > 0 THEN amount ELSE AmountOf[k]
  <2>1. /\ recordedFor' = [recordedFor EXCEPT ![k] = i] /\ typed' = [typed EXCEPT ![k] = amount]
        /\ sentTo' = sentTo
        /\ amount = 0 => k \in Deposits /\ sentTo[k] = i
        /\ \/ rejected' = rejected \cup {k} /\ credited' = credited
           \/ rejected' = rejected /\ credited' = [credited EXCEPT ![i] = @ + worth]
    BY <1>4 DEF Records
  <2>2. /\ recordedFor'[k] = i /\ typed'[k] = amount
        /\ \A l \in Keys : l # k => recordedFor'[l] = recordedFor[l] /\ typed'[l] = typed[l]
    BY <2>1 DEF TypeOK, DataOK
  <2>3. recorded' = recorded \cup {k} /\ k \notin recorded
    BY <2>2, NobodyAssumption DEF recorded
  <2>4. IsFiniteSet(recorded')
    BY <2>3, FS_AddElement DEF CreditInv
  <2>5. \A l \in recorded' : typed'[l] = 0 => l \in Deposits /\ sentTo'[l] = recordedFor'[l]
    BY <2>1, <2>2, <2>3 DEF CreditInv, recorded
  <2>6. /\ Worths'[k] = worth
        /\ \A l \in recorded : Worths'[l] = Worths[l]
    BY <2>2 DEF Worths, Worth, recorded
  <2>7. \A l \in recorded : Worths[l] \in Int
    BY WorthInt DEF Worths, recorded
  <2>8. worth \in Int
    <3>1. k \in Deposits => AmountOf[k] \in Int
      BY DepositsAssumption
    <3>2. amount = 0 => k \in Deposits
      BY <2>1
    <3> QED BY <3>1, <3>2
  <2> HIDE DEF worth
  <2>9. ASSUME NEW a \in Instructions
        PROVE  credited'[a] = SumFunctionOnSet(Worths', Accepted(a)')
    <3> DEFINE mine == Accepted(a)
    <3>1. credited[a] = SumFunctionOnSet(Worths, mine)
      BY DEF CreditInv
    <3>2. IsFiniteSet(mine) /\ mine \subseteq recorded
      BY FS_Subset DEF CreditInv, Accepted
    <3>3. SumFunctionOnSet(Worths', mine) = SumFunctionOnSet(Worths, mine)
      <4> HIDE DEF mine
      <4>1. \A l \in mine : Worths'[l] = Worths[l]
        BY <2>6, <3>2
      <4> QED BY <3>2, <4>1, SumAgree
    <3>4. CASE credited'[a] = credited[a] /\ (rejected' = rejected \cup {k} \/ i # a)
      <4>1. \A l \in recorded : recordedFor'[l] = recordedFor[l] /\ l # k
        BY <2>2, <2>3 DEF recorded
      <4>2. rejected' = rejected \/ rejected' = rejected \cup {k}
        BY <2>1
      <4>3. Accepted(a)' = mine
        BY <2>2, <2>3, <3>4, <4>1, <4>2 DEF Accepted
      <4> QED BY <3>1, <3>3, <3>4, <4>3
    <3>5. CASE i = a /\ rejected' = rejected /\ credited'[a] = credited[a] + worth
      <4>1. \A l \in recorded : recordedFor'[l] = recordedFor[l] /\ l # k
        BY <2>2, <2>3 DEF recorded
      <4>2. k \notin rejected
        BY <2>3 DEF TypeOK, DataOK
      <4>3. Accepted(a)' = mine \cup {k} /\ k \notin mine
        BY <2>2, <2>3, <3>5, <4>1, <4>2 DEF Accepted
      <4> HIDE DEF mine
      <4>4. \A l \in mine \cup {k} : Worths'[l] \in Int
        BY <2>6, <2>7, <2>8, <3>2
      <4>5. SumFunctionOnSet(Worths', mine \cup {k}) = SumFunctionOnSet(Worths', mine) + Worths'[k]
        BY <3>2, <4>3, <4>4, SumPutIn
      <4> QED BY <2>6, <3>1, <3>3, <3>5, <4>3, <4>5
    <3> QED BY <2>1, <3>4, <3>5 DEF TypeOK, DataOK
  <2> QED BY <2>4, <2>5, <2>9 DEF CreditInv
<1> QED BY <1>3, <1>4, NextRecorded

\* Before anything happened nothing is recorded and nothing credited.
LEMMA InitCreditInv == Init => CreditInv
<1> SUFFICES ASSUME Init PROVE CreditInv
  OBVIOUS
<1>1. recorded = {}
  BY DEF Init, recorded
<1>2. \A i \in Instructions : Accepted(i) = {} /\ credited[i] = 0
  BY <1>1 DEF Init, Accepted
<1> QED BY <1>1, <1>2, SumEmpty, FS_EmptySet DEF CreditInv

\* Crediting: whatever overlaps, fails and is tried again, what
\* FundingService credits to an instruction is the sum of the rows accepted
\* for it, each signature in one row, and a row no person typed is a transfer
\* sent to that instruction, with what it pays.
THEOREM Crediting == Spec => []CreditedOnce
<1> DEFINE IInv == TypeOK /\ CreditInv
<1>1. Init => IInv
  BY InitTypeOK, InitCreditInv
<1>2. IInv /\ [Next]_vars => IInv'
  BY NextTypeOK, NextCreditInv, NextCases
<1>3. IInv => CreditedOnce
  BY CreditInvImplies
<1> QED BY <1>1, <1>2, <1>3, PTL DEF Spec

-------------------------------------------------------------------------------
\* The workers that run.
Busy == {w \in Workers : ~ At(w, "idle")}

\* What a worker has still to post for an instruction: its transfer, until
\* the funding_received entry is written, and the surplus it will post.
DueReceived(w, i) ==
    IF At(w, "received") /\ Instr(w) = i THEN Paid(w) ELSE 0
DueSurplus(w, i) ==
    IF job[w].step \in Recorded /\ Instr(w) = i THEN SurplusDelta(w) ELSE 0

AllDueReceived(i) == SumFunctionOnSet([w \in Workers |-> DueReceived(w, i)], Busy)
AllDueSurplus(i) == SumFunctionOnSet([w \in Workers |-> DueSurplus(w, i)], Busy)

\* What is posted and what the workers that run will post is together no
\* more than what is credited.
LedgerInv ==
    /\ IsFiniteSet(Busy)
    /\ \A i \in Instructions :
          /\ received[i] + AllDueReceived(i) =< credited[i]
          /\ surplus[i] + AllDueSurplus(i) =< Excess(credited[i], expectedAmount[i])

\* An excess is a natural number, and nothing exceeds what is expected
\* before there is credit.
LEMMA ExcessOf ==
    ASSUME NEW e \in Nat
    PROVE  Excess(0, e) = 0 /\ \A c \in Nat : Excess(c, e) \in Nat
BY DEF Excess

\* The more there is, the more of a transfer is surplus.
LEMMA ExcessConvex ==
    ASSUME NEW seen \in Nat, NEW c \in Nat, seen =< c, NEW paid \in Nat, NEW e \in Nat
    PROVE  Excess(seen + paid, e) - Excess(seen, e) =< Excess(c + paid, e) - Excess(c, e)
BY DEF Excess

\* What is due is a natural number, and nothing for a worker that has
\* recorded no transfer.
LEMMA DueOK ==
    ASSUME TypeOK, NEW w \in Workers, NEW i \in Instructions
    PROVE  /\ DueReceived(w, i) \in Nat /\ DueSurplus(w, i) \in Nat
           /\ job[w].step \notin Recorded => DueReceived(w, i) = 0 /\ DueSurplus(w, i) = 0
           /\ Instr(w) # i => DueReceived(w, i) = 0 /\ DueSurplus(w, i) = 0
           /\ job[w].step # "received" => DueReceived(w, i) = 0
<1>1. job[w].step # "received" => DueReceived(w, i) = 0
  BY DEF DueReceived, At
<1>2. job[w].step \notin Recorded => DueReceived(w, i) = 0 /\ DueSurplus(w, i) = 0
  BY DEF DueReceived, DueSurplus, At, Recorded
<1>3. job[w].step \in Recorded => Paid(w) \in Nat /\ SurplusDelta(w) \in Nat
  BY AtWork, Computed DEF Applying
<1>4. job[w].step \in Recorded => DueReceived(w, i) \in Nat /\ DueSurplus(w, i) \in Nat
  BY <1>3 DEF DueReceived, DueSurplus
<1>5. Instr(w) # i => DueReceived(w, i) = 0 /\ DueSurplus(w, i) = 0
  BY DEF DueReceived, DueSurplus
<1> QED BY <1>1, <1>2, <1>4, <1>5

\* The same for all workers, as a formula of the state.
DueTyped ==
    \A w \in Workers, i \in Instructions :
        DueReceived(w, i) \in Nat /\ DueSurplus(w, i) \in Nat

\* What is due is a natural number in each well typed state.
LEMMA TypeOKDue == TypeOK => DueTyped
BY DueOK DEF DueTyped

\* What is due from a worker that takes no step stays due.
LEMMA DueStays ==
    ASSUME TypeOK, Grows, NEW v \in Workers, NEW i \in Instructions,
           job'[v].step = job[v].step, job'[v].instr = job[v].instr,
           job'[v].todo = job[v].todo, job'[v].seen = job[v].seen /\ job'[v].typed = job[v].typed
    PROVE  DueReceived(v, i)' = DueReceived(v, i) /\ DueSurplus(v, i)' = DueSurplus(v, i)
<1>1. Instr(v)' = Instr(v) /\ Paid(v)' = Paid(v)
  BY DEF Instr, Current, Paid, ByHand
<1>2. DueReceived(v, i)' = DueReceived(v, i)
  BY <1>1 DEF DueReceived, At
<1>3. CASE job[v].step \notin Recorded
  BY <1>2, <1>3 DEF DueSurplus
<1>4. CASE job[v].step \in Recorded
  <2>1. expectedAmount'[Instr(v)] = expectedAmount[Instr(v)]
    BY <1>4, AtWork DEF Grows, Applying
  <2> QED BY <1>1, <1>2, <2>1 DEF DueSurplus, SurplusDelta, NextCredited
<1> QED BY <1>2, <1>3, <1>4

\* A step of one worker keeps the ledger's balance if what it posts, and
\* what is due from it afterwards, is at most what was due and is credited.
LEMMA OneWorkerLedger ==
    ASSUME TypeOK, TypeOK', Grows, LedgerInv, NEW w \in Workers, NEW j,
           job' = [job EXCEPT ![w] = j],
           \A i \in Instructions :
              /\ (received'[i] - received[i]) + (DueReceived(w, i)' - DueReceived(w, i))
                    =< credited'[i] - credited[i]
              /\ (surplus'[i] - surplus[i]) + (DueSurplus(w, i)' - DueSurplus(w, i))
                    =< Excess(credited'[i], expectedAmount'[i]) - Excess(credited[i], expectedAmount[i])
    PROVE  LedgerInv'
<1>0. DueTyped /\ DueTyped'
  BY TypeOKDue, PTL
<1>1. \A v \in Workers \ {w} : job'[v] = job[v]
  BY DEF TypeOK
<1>2. IsFiniteSet(Busy) /\ IsFiniteSet(Busy') /\ Busy \ {w} = Busy' \ {w}
  <2>1. Busy \ {w} = Busy' \ {w}
    BY <1>1 DEF Busy, At
  <2>2. IsFiniteSet(Busy)
    BY DEF LedgerInv
  <2>3. IsFiniteSet(Busy \cup {w}) /\ Busy' \in SUBSET (Busy \cup {w})
    BY <2>1, <2>2, FS_AddElement
  <2>4. IsFiniteSet(Busy')
    BY <2>3, FS_Subset
  <2> QED BY <2>1, <2>2, <2>4
<1>3. ASSUME NEW i \in Instructions
      PROVE  /\ AllDueReceived(i)' = AllDueReceived(i) + (DueReceived(w, i)' - DueReceived(w, i))
             /\ AllDueSurplus(i)' = AllDueSurplus(i) + (DueSurplus(w, i)' - DueSurplus(w, i))
             /\ AllDueReceived(i) \in Int /\ AllDueSurplus(i) \in Int
  <2> DEFINE f == [v \in Workers |-> DueReceived(v, i)]
             g == [v \in Workers |-> DueReceived(v, i)']
             h == [v \in Workers |-> DueSurplus(v, i)]
             k == [v \in Workers |-> DueSurplus(v, i)']
  <2>1. \A v \in Workers : DueReceived(v, i) \in Nat /\ DueSurplus(v, i) \in Nat
    BY DueOK
  <2>2. \A v \in Workers : DueReceived(v, i)' \in Nat /\ DueSurplus(v, i)' \in Nat
    BY <1>0 DEF DueTyped
  <2>3. \A v \in Workers \ {w} : /\ DueReceived(v, i)' = DueReceived(v, i)
                                 /\ DueSurplus(v, i)' = DueSurplus(v, i)
    BY <1>1, DueStays
  <2>4. /\ w \notin Busy => DueReceived(w, i) = 0 /\ DueSurplus(w, i) = 0
        /\ w \notin Busy' => DueReceived(w, i)' = 0 /\ DueSurplus(w, i)' = 0
    BY DEF Busy, DueReceived, DueSurplus, At, Recorded
  <2>5. Busy \subseteq Workers /\ Busy' \subseteq Workers
    BY DEF Busy
  <2>6. \A v \in Workers : f[v] \in Int /\ g[v] \in Int /\ h[v] \in Int /\ k[v] \in Int
    BY <2>1, <2>2
  <2>7. \A v \in Workers \ {w} : g[v] = f[v] /\ k[v] = h[v]
    BY <2>3
  <2>8. /\ w \notin Busy => f[w] = 0 /\ h[w] = 0
        /\ w \notin Busy' => g[w] = 0 /\ k[w] = 0
    BY <2>4
  <2>9. /\ AllDueReceived(i) = SumFunctionOnSet(f, Busy)
        /\ AllDueReceived(i)' = SumFunctionOnSet(g, Busy')
        /\ AllDueSurplus(i) = SumFunctionOnSet(h, Busy)
        /\ AllDueSurplus(i)' = SumFunctionOnSet(k, Busy')
    BY DEF AllDueReceived, AllDueSurplus
  <2>10. /\ f[w] = DueReceived(w, i) /\ g[w] = DueReceived(w, i)'
         /\ h[w] = DueSurplus(w, i) /\ k[w] = DueSurplus(w, i)'
    OBVIOUS
  <2> HIDE DEF f, g, h, k
  <2>11. ASSUME NEW p, NEW q, \A v \in Workers : p[v] \in Int /\ q[v] \in Int,
                \A v \in Workers \ {w} : q[v] = p[v],
                w \notin Busy => p[w] = 0, w \notin Busy' => q[w] = 0
         PROVE  SumFunctionOnSet(q, Busy') = SumFunctionOnSet(p, Busy) + (q[w] - p[w])
    <3>1. \A v \in Busy \ {w} : p[v] \in Int /\ q[v] = p[v]
      BY <2>5, <2>11
    <3> QED BY <1>2, <2>11, <3>1, SumChange
  <2>12. SumFunctionOnSet(g, Busy') = SumFunctionOnSet(f, Busy) + (g[w] - f[w])
    BY <2>6, <2>7, <2>8, <2>11
  <2>13. SumFunctionOnSet(k, Busy') = SumFunctionOnSet(h, Busy) + (k[w] - h[w])
    BY <2>6, <2>7, <2>8, <2>11
  <2>14. SumFunctionOnSet(f, Busy) \in Int /\ SumFunctionOnSet(h, Busy) \in Int
    BY <1>2, <2>5, <2>6, SumInt
  <2> QED BY <2>9, <2>10, <2>12, <2>13, <2>14
<1>4. ASSUME NEW i \in Instructions
      PROVE  /\ received'[i] + AllDueReceived(i)' =< credited'[i]
             /\ surplus'[i] + AllDueSurplus(i)' =< Excess(credited'[i], expectedAmount'[i])
  <2>1. /\ received[i] \in Nat /\ surplus[i] \in Nat /\ credited[i] \in Nat
        /\ received'[i] \in Nat /\ surplus'[i] \in Nat /\ credited'[i] \in Nat
        /\ expectedAmount[i] \in Nat /\ expectedAmount'[i] \in Nat
    BY DEF TypeOK, DataOK
  <2>2. /\ Excess(credited[i], expectedAmount[i]) \in Nat
        /\ Excess(credited'[i], expectedAmount'[i]) \in Nat
    BY <2>1, ExcessOf
  <2>3. /\ DueReceived(w, i) \in Nat /\ DueSurplus(w, i) \in Nat
        /\ DueReceived(w, i)' \in Nat /\ DueSurplus(w, i)' \in Nat
    BY <1>0 DEF DueTyped
  <2>4. /\ received[i] + AllDueReceived(i) =< credited[i]
        /\ surplus[i] + AllDueSurplus(i) =< Excess(credited[i], expectedAmount[i])
    BY DEF LedgerInv
  <2>5. received'[i] + AllDueReceived(i)' =< credited'[i]
    BY <1>3, <2>1, <2>3, <2>4
  <2>6. surplus'[i] + AllDueSurplus(i)' =< Excess(credited'[i], expectedAmount'[i])
    BY <1>3, <2>1, <2>2, <2>3, <2>4
  <2> QED BY <2>5, <2>6
<1> QED BY <1>2, <1>4 DEF LedgerInv

\* A step of one worker that posts nothing, is credited nothing, and leaves
\* it owing what it owed, or nothing, keeps the balance.
LEMMA QuietLedger ==
    ASSUME TypeOK, TypeOK', Grows, LedgerInv, NEW w \in Workers, NEW j,
           job' = [job EXCEPT ![w] = j],
           UNCHANGED <<received, surplus, credited, expectedAmount>>,
           \/ j.step \notin Recorded
           \/ /\ job[w].step \in Recorded /\ job[w].step # "received" /\ j.step # "received"
              /\ j.step \in Recorded
              /\ j.instr = job[w].instr /\ j.todo = job[w].todo /\ j.seen = job[w].seen /\ j.typed = job[w].typed
    PROVE  LedgerInv'
<1>0. DueTyped /\ DueTyped'
  BY TypeOKDue, PTL
<1>1. job'[w] = j
  BY DEF TypeOK
<1>2. ASSUME NEW i \in Instructions
      PROVE  DueReceived(w, i)' =< DueReceived(w, i) /\ DueSurplus(w, i)' =< DueSurplus(w, i)
  <2>1. /\ DueReceived(w, i) \in Nat /\ DueSurplus(w, i) \in Nat
    BY DueOK
  <2>2. CASE j.step \notin Recorded
    <3>1. DueReceived(w, i)' = 0 /\ DueSurplus(w, i)' = 0
      BY <1>1, <2>2 DEF DueReceived, DueSurplus, At, Recorded
    <3> QED BY <2>1, <3>1
  <2>3. CASE /\ job[w].step \in Recorded /\ job[w].step # "received" /\ j.step # "received"
             /\ j.step \in Recorded
             /\ j.instr = job[w].instr /\ j.todo = job[w].todo /\ j.seen = job[w].seen /\ j.typed = job[w].typed
    <3>1. Instr(w)' = Instr(w) /\ Paid(w)' = Paid(w)
      BY <1>1, <2>3 DEF Instr, Current, Paid, ByHand
    <3>2. DueReceived(w, i)' = 0 /\ DueReceived(w, i) = 0
      BY <1>1, <2>3 DEF DueReceived, At
    <3>3. DueSurplus(w, i)' = DueSurplus(w, i)
      BY <1>1, <2>3, <3>1 DEF DueSurplus, SurplusDelta, NextCredited
    <3> QED BY <2>1, <3>2, <3>3
  <2> QED BY <2>2, <2>3
<1>3. ASSUME NEW i \in Instructions
      PROVE  /\ (received'[i] - received[i]) + (DueReceived(w, i)' - DueReceived(w, i))
                   =< credited'[i] - credited[i]
             /\ (surplus'[i] - surplus[i]) + (DueSurplus(w, i)' - DueSurplus(w, i))
                   =< Excess(credited'[i], expectedAmount'[i]) - Excess(credited[i], expectedAmount[i])
  <2>1. /\ received[i] \in Nat /\ surplus[i] \in Nat /\ credited[i] \in Nat
        /\ Excess(credited[i], expectedAmount[i]) \in Nat
    BY ExcessOf DEF TypeOK, DataOK
  <2>2. /\ DueReceived(w, i) \in Nat /\ DueSurplus(w, i) \in Nat
        /\ DueReceived(w, i)' \in Nat /\ DueSurplus(w, i)' \in Nat
    BY <1>0 DEF DueTyped
  <2> QED BY <1>2, <2>1, <2>2
<1> QED BY <1>3, OneWorkerLedger

\* The inductive step of LedgerNotOverstated.
LEMMA NextLedger ==
    ASSUME TypeOK, DecisionIsBacked, LedgerInv, [Step]_vars
    PROVE  LedgerInv'
<1> USE DEF instrVars, moneyVars, ledgerVars, worldVars, toldVars
<1>1. TypeOK' /\ Grows
  BY NextTypeOK
<1>2. ASSUME NEW w \in Workers, NEW i \in Instructions, EnsureCreate(w, i)
      PROVE  LedgerInv'
  <2> DEFINE j == [job[w] EXCEPT !.step = "mark"]
  <2>1. job' = [job EXCEPT ![w] = j] /\ j.step = "mark"
    BY <1>2 DEF EnsureCreate, GoTo, TypeOK, Jobs
  <2>2. job'[w] = j
    BY <2>1 DEF TypeOK
  <2> HIDE DEF j
  <2>3. ASSUME NEW k \in Instructions
        PROVE  /\ (received'[k] - received[k]) + (DueReceived(w, k)' - DueReceived(w, k))
                     =< credited'[k] - credited[k]
               /\ (surplus'[k] - surplus[k]) + (DueSurplus(w, k)' - DueSurplus(w, k))
                     =< Excess(credited'[k], expectedAmount'[k]) - Excess(credited[k], expectedAmount[k])
    <3>1. /\ DueReceived(w, k)' = 0 /\ DueReceived(w, k) = 0
          /\ DueSurplus(w, k)' = 0 /\ DueSurplus(w, k) = 0
      BY <1>2, <2>1, <2>2 DEF EnsureCreate, DueReceived, DueSurplus, At, Recorded
    <3>2. /\ received' = received /\ surplus' = surplus /\ credited' = credited
          /\ received[k] \in Nat /\ surplus[k] \in Nat /\ credited[k] \in Nat
          /\ expectedAmount[k] \in Nat /\ expectedAmount'[k] \in Nat
      BY <1>1, <1>2 DEF EnsureCreate, TypeOK, DataOK
    <3>3. credited[k] = 0 \/ expectedAmount'[k] = expectedAmount[k]
      BY <1>2 DEF EnsureCreate, TypeOK, DataOK
    <3>4. /\ Excess(credited[k], expectedAmount'[k]) = Excess(credited[k], expectedAmount[k])
          /\ Excess(credited[k], expectedAmount[k]) \in Nat
      BY <3>2, <3>3, ExcessOf
    <3> QED BY <3>1, <3>2, <3>4
  <2> QED BY <1>1, <2>1, <2>3, OneWorkerLedger
<1>3. ASSUME NEW w \in Workers, Starts(w)
      PROVE  LedgerInv'
  <2>1. PICK j \in Jobs : /\ j.step \in {"idle", "check", "create", "lookup"}
                         /\ job' = [job EXCEPT ![w] = j]
    BY <1>3, StartsTypeOK
  <2>2. j.step \notin Recorded
    BY <2>1 DEF Recorded
  <2>3. UNCHANGED <<received, surplus, credited, expectedAmount>>
    BY <1>3, StartsTypeOK
  <2> QED BY <1>1, <2>1, <2>2, <2>3, QuietLedger
<1>4. ASSUME NEW w \in Workers, Applies(w)
      PROVE  LedgerInv'
  <2>1. /\ job[w].step \in Applying /\ job[w] \in Jobs
        /\ Instr(w) \in Instructions /\ credited[Instr(w)] \in Nat /\ Current(w) \in Keys
        /\ job[w].seen \in Nat /\ Paid(w) \in Nat
        /\ expectedAmount[Instr(w)] \in Nat
    BY <1>4, AtWork DEF Applies, At, Applying, Recorded, Lookup, ReadCredited, Insert,
       PostReceived, UpdateStatus, Apply, Notice, PostReserved, PostSurplus, TypeOK
  <2>2. ASSUME Stop(w) \/ TurnToNext(w)
        PROVE  \E j : job' = [job EXCEPT ![w] = j] /\ j.step \in {"idle", "lookup"}
    <3>1. CASE Stop(w)
      <4>1. job' = [job EXCEPT ![w] = Idle]
        BY <3>1 DEF Stop
      <4>2. Idle.step = "idle"
        BY DEF Idle
      <4> QED BY <4>1, <4>2
    <3>2. CASE TurnToNext(w)
      <4> DEFINE j == [Idle EXCEPT !.step = "lookup", !.instr = Instr(w),
                                   !.todo = job[w].todo \ {Current(w)}]
      <4>1. Stop(w) \/ job' = [job EXCEPT ![w] = j]
        BY <3>2 DEF TurnToNext
      <4>2. j.step = "lookup"
        BY DEF Idle
      <4> QED BY <3>1, <4>1, <4>2
    <3> QED BY <2>2, <3>1, <3>2
  <2>3. ASSUME NEW s, GoTo(w, s)
        PROVE  \E j : /\ job' = [job EXCEPT ![w] = j] /\ j.step = s
                      /\ j.instr = job[w].instr /\ j.todo = job[w].todo /\ j.seen = job[w].seen /\ j.typed = job[w].typed
    <3> DEFINE j == [job[w] EXCEPT !.step = s]
    <3>1. job' = [job EXCEPT ![w] = j]
      BY <2>3 DEF GoTo
    <3>2. j.step = s /\ j.instr = job[w].instr /\ j.todo = job[w].todo /\ j.seen = job[w].seen /\ j.typed = job[w].typed
      BY <2>1 DEF Jobs
    <3> QED BY <3>1, <3>2
  <2>4. CASE UNCHANGED <<received, surplus, credited, expectedAmount>> /\ (Stop(w) \/ TurnToNext(w))
    <3>1. PICK j : job' = [job EXCEPT ![w] = j] /\ j.step \in {"idle", "lookup"}
      BY <2>2, <2>4
    <3>2. j.step \notin Recorded
      BY <3>1 DEF Recorded
    <3> QED BY <1>1, <2>4, <3>1, <3>2, QuietLedger
  <2>5. CASE Lookup(w)
    <3>1. CASE GoTo(w, "read")
      <4>1. PICK j : job' = [job EXCEPT ![w] = j] /\ j.step = "read"
        BY <2>3, <3>1
      <4>2. j.step \notin Recorded
        BY <4>1 DEF Recorded
      <4>3. UNCHANGED <<received, surplus, credited, expectedAmount>>
        BY <2>5 DEF Lookup
      <4> QED BY <1>1, <4>1, <4>2, <4>3, QuietLedger
    <3> QED BY <2>4, <2>5, <3>1 DEF Lookup
  <2>6. CASE ReadCredited(w)
    <3> DEFINE j == [job[w] EXCEPT !.step = "insert", !.seen = credited[Instr(w)],
                                   !.ok = Accepts(Source(w))]
    <3>1. job' = [job EXCEPT ![w] = j]
      BY <2>6 DEF ReadCredited
    <3>2. j.step \notin Recorded
      BY <2>1 DEF Jobs, Recorded
    <3>3. UNCHANGED <<received, surplus, credited, expectedAmount>>
      BY <2>6 DEF ReadCredited
    <3> HIDE DEF j
    <3> QED BY <1>1, <3>1, <3>2, <3>3, QuietLedger
  <2>7. CASE UpdateStatus(w) \/ Notice(w) \/ PostReserved(w) \/ \E throws \in BOOLEAN : Apply(w, throws)
    <3>1. /\ UNCHANGED <<received, surplus, credited, expectedAmount>>
          /\ job[w].step \in Recorded /\ job[w].step # "received"
      BY <2>7 DEF UpdateStatus, Notice, PostReserved, Apply, At, Recorded
    <3>2. Stop(w) \/ \E s \in Recorded \ {"received"} : GoTo(w, s)
      BY <2>7 DEF UpdateStatus, Notice, PostReserved, Apply, Recorded
    <3>3. ASSUME NEW s \in Recorded \ {"received"}, GoTo(w, s)
          PROVE  LedgerInv'
      <4>1. PICK j : /\ job' = [job EXCEPT ![w] = j] /\ j.step = s
                     /\ j.instr = job[w].instr /\ j.todo = job[w].todo /\ j.seen = job[w].seen /\ j.typed = job[w].typed
        BY <2>3, <3>3
      <4> QED BY <1>1, <3>1, <3>3, <4>1, QuietLedger
    <3> QED BY <2>4, <3>1, <3>2, <3>3
  <2>0. PICK a \in Instructions : a = Instr(w)
    BY <2>1
  <2>8. ASSUME GoTo(w, "received") \/ GoTo(w, "update") \/ Stop(w) \/ TurnToNext(w),
               \A i \in Instructions : i # a =>
                  /\ received'[i] = received[i] /\ surplus'[i] = surplus[i]
                  /\ credited'[i] = credited[i] /\ expectedAmount'[i] = expectedAmount[i],
               /\ (received'[a] - received[a])
                     + (DueReceived(w, a)' - DueReceived(w, a))
                     =< credited'[a] - credited[a]
               /\ (surplus'[a] - surplus[a])
                     + (DueSurplus(w, a)' - DueSurplus(w, a))
                     =< Excess(credited'[a], expectedAmount'[a])
                           - Excess(credited[a], expectedAmount[a])
        PROVE  LedgerInv'
    <3>1. PICK j : /\ job' = [job EXCEPT ![w] = j]
                   /\ j.step \notin Recorded \/ j.instr = a
      <4>1. CASE Stop(w) \/ TurnToNext(w)
        <5>1. PICK j : job' = [job EXCEPT ![w] = j] /\ j.step \in {"idle", "lookup"}
          BY <2>2, <4>1
        <5> QED BY <5>1 DEF Recorded
      <4>2. CASE GoTo(w, "received") \/ GoTo(w, "update")
        <5>1. PICK j : job' = [job EXCEPT ![w] = j] /\ j.instr = job[w].instr
          BY <2>3, <4>2
        <5> QED BY <2>0, <5>1 DEF Instr
      <4> QED BY <2>8, <4>1, <4>2
    <3>2. job'[w] = j
      BY <3>1 DEF TypeOK
    <3>3. ASSUME NEW i \in Instructions, i # a
          PROVE  /\ (received'[i] - received[i]) + (DueReceived(w, i)' - DueReceived(w, i))
                       =< credited'[i] - credited[i]
                 /\ (surplus'[i] - surplus[i]) + (DueSurplus(w, i)' - DueSurplus(w, i))
                       =< Excess(credited'[i], expectedAmount'[i])
                             - Excess(credited[i], expectedAmount[i])
      <4>1. DueReceived(w, i) = 0 /\ DueSurplus(w, i) = 0
        BY <2>0, <3>3, DueOK
      <4>2. DueReceived(w, i)' = 0 /\ DueSurplus(w, i)' = 0
        BY <3>1, <3>2, <3>3 DEF DueReceived, DueSurplus, At, Recorded, Instr
      <4>3. /\ received[i] \in Nat /\ surplus[i] \in Nat /\ credited[i] \in Nat
            /\ Excess(credited[i], expectedAmount[i]) \in Nat
        BY ExcessOf DEF TypeOK, DataOK
      <4> QED BY <2>8, <3>3, <4>1, <4>2, <4>3
    <3>4. \A i \in Instructions :
             /\ (received'[i] - received[i]) + (DueReceived(w, i)' - DueReceived(w, i))
                   =< credited'[i] - credited[i]
             /\ (surplus'[i] - surplus[i]) + (DueSurplus(w, i)' - DueSurplus(w, i))
                   =< Excess(credited'[i], expectedAmount'[i])
                         - Excess(credited[i], expectedAmount[i])
      <4> TAKE i \in Instructions
      <4>1. CASE i = a
        BY <2>8, <4>1
      <4>2. CASE i # a
        BY <3>3, <4>2
      <4> QED BY <4>1, <4>2
    <3> QED BY <1>1, <3>1, <3>4, OneWorkerLedger
  <2>9. CASE Insert(w)
    <3>1. CASE credited' = credited /\ (Stop(w) \/ TurnToNext(w))
      BY <2>4, <2>9, <3>1 DEF Insert
    <3>2. ASSUME GoTo(w, "received"),
                 credited' = [credited EXCEPT ![Instr(w)] = @ + Paid(w)]
          PROVE  LedgerInv'
      <4>1. /\ received' = received /\ surplus' = surplus /\ expectedAmount' = expectedAmount
            /\ job[w].step = "insert"
        BY <2>9 DEF Insert, At
      <4>2. /\ job'[w].step = "received" /\ job'[w].instr = job[w].instr
            /\ job'[w].todo = job[w].todo /\ job'[w].seen = job[w].seen /\ job'[w].typed = job[w].typed
        BY <2>0, <2>1, <3>2 DEF Jobs, GoTo, TypeOK
      <4>3. Instr(w)' = a /\ Paid(w)' = Paid(w)
        BY <2>0, <4>2 DEF Instr, Current, Paid, ByHand
      <4>4. job[w].seen =< credited[a]
        BY <2>0, <4>1 DEF DecisionIsBacked, At
      <4>5. /\ DueReceived(w, a) = 0 /\ DueSurplus(w, a) = 0
            /\ DueReceived(w, a)' = Paid(w)
            /\ DueSurplus(w, a)' =
                  Excess(job[w].seen + Paid(w), expectedAmount[a])
                     - Excess(job[w].seen, expectedAmount[a])
        BY <2>0, <4>1, <4>2, <4>3
           DEF DueReceived, DueSurplus, SurplusDelta, NextCredited, At, Recorded
      <4>6. /\ credited'[a] = credited[a] + Paid(w)
            /\ \A i \in Instructions : i # a => credited'[i] = credited[i]
        BY <2>0, <2>1, <3>2 DEF TypeOK, DataOK
      <4>7. /\ received[a] \in Nat /\ surplus[a] \in Nat
            /\ Excess(job[w].seen, expectedAmount[a]) \in Nat
            /\ Excess(job[w].seen + Paid(w), expectedAmount[a]) \in Nat
        <5>1. job[w].seen + Paid(w) \in Nat
          BY <2>0, <2>1
        <5> QED BY <2>0, <2>1, <5>1, ExcessOf DEF TypeOK, DataOK
      <4>8. Excess(job[w].seen + Paid(w), expectedAmount[a])
                  - Excess(job[w].seen, expectedAmount[a])
               =< Excess(credited[a] + Paid(w), expectedAmount[a])
                  - Excess(credited[a], expectedAmount[a])
        BY <2>0, <2>1, <4>4, ExcessConvex
      <4>9. (received'[a] - received[a])
               + (DueReceived(w, a)' - DueReceived(w, a))
               =< credited'[a] - credited[a]
        BY <2>0, <2>1, <4>1, <4>5, <4>6, <4>7
      <4>10. (surplus'[a] - surplus[a])
                + (DueSurplus(w, a)' - DueSurplus(w, a))
                =< Excess(credited'[a], expectedAmount'[a])
                      - Excess(credited[a], expectedAmount[a])
        BY <4>1, <4>5, <4>6, <4>7, <4>8
      <4> QED BY <2>8, <3>2, <4>1, <4>6, <4>9, <4>10
    <3>3. \/ credited' = credited /\ (Stop(w) \/ TurnToNext(w))
          \/ /\ GoTo(w, "received")
             /\ credited' = [credited EXCEPT ![Instr(w)] = @ + Paid(w)]
      BY <2>9 DEF Insert
    <3> QED BY <3>1, <3>2, <3>3
  <2>10. CASE PostReceived(w)
    <3>1. /\ credited' = credited /\ surplus' = surplus /\ expectedAmount' = expectedAmount
          /\ job[w].step = "received" /\ GoTo(w, "update")
          /\ received' = [received EXCEPT ![Instr(w)] = @ + Paid(w)]
      BY <2>10 DEF PostReceived, At
    <3>2. /\ job'[w].step = "update" /\ job'[w].instr = job[w].instr
          /\ job'[w].todo = job[w].todo /\ job'[w].seen = job[w].seen /\ job'[w].typed = job[w].typed
      BY <2>0, <2>1, <3>1 DEF Jobs, GoTo, TypeOK
    <3>3. Instr(w)' = a /\ Paid(w)' = Paid(w)
      BY <2>0, <3>2 DEF Instr, Current, Paid, ByHand
    <3>4. /\ DueReceived(w, a) = Paid(w) /\ DueReceived(w, a)' = 0
          /\ DueSurplus(w, a)' = DueSurplus(w, a)
      BY <2>0, <3>1, <3>2, <3>3 DEF DueReceived, DueSurplus, SurplusDelta, NextCredited, At, Recorded
    <3>5. /\ received[a] \in Nat /\ surplus[a] \in Nat
          /\ received'[a] = received[a] + Paid(w)
          /\ \A i \in Instructions : i # a => received'[i] = received[i]
          /\ DueSurplus(w, a) \in Nat
          /\ Excess(credited[a], expectedAmount[a]) \in Nat
      BY <2>0, <2>1, <3>1, DueOK, ExcessOf DEF TypeOK, DataOK
    <3>6. (received'[a] - received[a])
             + (DueReceived(w, a)' - DueReceived(w, a))
             =< credited'[a] - credited[a]
      BY <2>0, <2>1, <3>1, <3>4, <3>5
    <3>7. (surplus'[a] - surplus[a])
             + (DueSurplus(w, a)' - DueSurplus(w, a))
             =< Excess(credited'[a], expectedAmount'[a])
                   - Excess(credited[a], expectedAmount[a])
      BY <3>1, <3>4, <3>5
    <3> QED BY <2>8, <3>1, <3>5, <3>6, <3>7
  <2>11. CASE PostSurplus(w)
    <3>1. /\ credited' = credited /\ received' = received /\ expectedAmount' = expectedAmount
          /\ job[w].step = "surplus" /\ TurnToNext(w)
          /\ surplus' = [surplus EXCEPT ![Instr(w)] = @ + SurplusDelta(w)]
      BY <2>11 DEF PostSurplus, At
    <3>2. PICK j : job' = [job EXCEPT ![w] = j] /\ j.step \in {"idle", "lookup"}
      BY <2>2, <3>1
    <3>3. job'[w].step \notin Recorded
      BY <3>2 DEF Recorded, TypeOK
    <3>4. /\ DueSurplus(w, a) = SurplusDelta(w) /\ DueSurplus(w, a)' = 0
          /\ DueReceived(w, a) = 0 /\ DueReceived(w, a)' = 0
      BY <2>0, <3>1, <3>3 DEF DueReceived, DueSurplus, At, Recorded
    <3>5. /\ received[a] \in Nat /\ surplus[a] \in Nat
          /\ surplus'[a] = surplus[a] + SurplusDelta(w)
          /\ \A i \in Instructions : i # a => surplus'[i] = surplus[i]
          /\ SurplusDelta(w) \in Nat
          /\ Excess(credited[a], expectedAmount[a]) \in Nat
      BY <2>0, <2>1, <3>1, Computed, ExcessOf DEF TypeOK, DataOK
    <3>6. (received'[a] - received[a])
             + (DueReceived(w, a)' - DueReceived(w, a))
             =< credited'[a] - credited[a]
      BY <2>0, <2>1, <3>1, <3>4, <3>5
    <3>7. (surplus'[a] - surplus[a])
             + (DueSurplus(w, a)' - DueSurplus(w, a))
             =< Excess(credited'[a], expectedAmount'[a])
                   - Excess(credited[a], expectedAmount[a])
      BY <3>1, <3>4, <3>5
    <3> QED BY <2>8, <3>1, <3>5, <3>6, <3>7
  <2> QED BY <1>4, <2>5, <2>6, <2>7, <2>9, <2>10, <2>11 DEF Applies
<1>5. ASSUME \/ \E d \in Deposits, i \in Instructions : Send(d, i)
             \/ \E S \in SUBSET Wallets : UpdateWallets(S)
             \/ \E b \in Batches : ResolveException(b)
             \/ UNCHANGED vars
      PROVE  LedgerInv'
  <2>1. UNCHANGED <<job, received, surplus, credited, expectedAmount>>
    BY <1>5 DEF Send, UpdateWallets, ResolveException, vars
  <2>2. \A w \in Workers : Instr(w)' = Instr(w) /\ Paid(w)' = Paid(w)
    BY <2>1 DEF Instr, Current, Paid, ByHand
  <2>3. Busy' = Busy
    BY <2>1 DEF Busy, At
  <2>4. \A i \in Instructions : AllDueReceived(i)' = AllDueReceived(i) /\ AllDueSurplus(i)' = AllDueSurplus(i)
    BY <2>1, <2>2, <2>3
       DEF AllDueReceived, AllDueSurplus, DueReceived, DueSurplus, SurplusDelta, NextCredited, At
  <2> QED BY <2>1, <2>3, <2>4 DEF LedgerInv
<1>6. ASSUME NEW S \in SUBSET Wallets, Restart(S)
      PROVE  LedgerInv'
  <2>1. Busy' = {}
    BY <1>6 DEF Restart, Busy, At, Idle
  <2>2. UNCHANGED <<received, surplus, credited, expectedAmount>>
    BY <1>6 DEF Restart
  <2>3. ASSUME NEW i \in Instructions
        PROVE  /\ AllDueReceived(i)' = 0 /\ AllDueSurplus(i)' = 0
               /\ AllDueReceived(i) \in Nat /\ AllDueSurplus(i) \in Nat
    <3>1. AllDueReceived(i)' = 0 /\ AllDueSurplus(i)' = 0
      BY <2>1, SumEmpty DEF AllDueReceived, AllDueSurplus
    <3>2. \A w \in Workers : DueReceived(w, i) \in Nat /\ DueSurplus(w, i) \in Nat
      BY DueOK
    <3>3. IsFiniteSet(Busy) /\ Busy \subseteq Workers
      BY DEF LedgerInv, Busy
    <3> DEFINE f == [w \in Workers |-> DueReceived(w, i)]
               h == [w \in Workers |-> DueSurplus(w, i)]
    <3>4. \A w \in Busy : f[w] \in Nat /\ h[w] \in Nat
      BY <3>2, <3>3
    <3>5. AllDueReceived(i) = SumFunctionOnSet(f, Busy) /\ AllDueSurplus(i) = SumFunctionOnSet(h, Busy)
      BY DEF AllDueReceived, AllDueSurplus
    <3> HIDE DEF f, h
    <3> QED BY <3>1, <3>3, <3>4, <3>5, SumNat
  <2>4. ASSUME NEW i \in Instructions
        PROVE  /\ received'[i] + AllDueReceived(i)' =< credited'[i]
               /\ surplus'[i] + AllDueSurplus(i)' =< Excess(credited'[i], expectedAmount'[i])
    <3>1. /\ received[i] \in Nat /\ surplus[i] \in Nat /\ credited[i] \in Nat
          /\ Excess(credited[i], expectedAmount[i]) \in Nat
      BY ExcessOf DEF TypeOK, DataOK
    <3>2. /\ received[i] + AllDueReceived(i) =< credited[i]
          /\ surplus[i] + AllDueSurplus(i) =< Excess(credited[i], expectedAmount[i])
      BY DEF LedgerInv
    <3> QED BY <2>2, <2>3, <3>1, <3>2
  <2> QED BY <2>1, <2>4, FS_EmptySet DEF LedgerInv
<1> QED BY <1>2, <1>3, <1>4, <1>5, <1>6 DEF Step

\* Before anything happened nobody owes an entry.
LEMMA InitLedger == Init => LedgerInv
<1> SUFFICES ASSUME Init PROVE LedgerInv
  OBVIOUS
<1>1. Busy = {}
  BY DEF Init, Busy, At, Idle
<1>2. \A i \in Instructions : AllDueReceived(i) = 0 /\ AllDueSurplus(i) = 0
  BY <1>1, SumEmpty DEF AllDueReceived, AllDueSurplus
<1>3. \A i \in Instructions : /\ received[i] = 0 /\ surplus[i] = 0 /\ credited[i] = 0
                             /\ expectedAmount[i] = 0
  BY DEF Init
<1> QED BY <1>1, <1>2, <1>3, FS_EmptySet, ExcessOf DEF LedgerInv

\* What is due is not negative, so that what is posted alone is no more than
\* what is credited either.
LEMMA LedgerInvImplies == TypeOK /\ LedgerInv => LedgerNotOverstated
<1> SUFFICES ASSUME TypeOK, LedgerInv, NEW i \in Instructions
             PROVE  /\ received[i] =< credited[i]
                    /\ surplus[i] =< Excess(credited[i], expectedAmount[i])
  BY DEF LedgerNotOverstated
<1> DEFINE f == [w \in Workers |-> DueReceived(w, i)]
           h == [w \in Workers |-> DueSurplus(w, i)]
<1>1. \A w \in Workers : DueReceived(w, i) \in Nat /\ DueSurplus(w, i) \in Nat
  BY DueOK
<1>2. IsFiniteSet(Busy) /\ Busy \subseteq Workers
  BY DEF LedgerInv, Busy
<1>3. \A w \in Busy : f[w] \in Nat /\ h[w] \in Nat
  BY <1>1, <1>2
<1>4. AllDueReceived(i) = SumFunctionOnSet(f, Busy) /\ AllDueSurplus(i) = SumFunctionOnSet(h, Busy)
  BY DEF AllDueReceived, AllDueSurplus
<1> HIDE DEF f, h
<1>5. AllDueReceived(i) \in Nat /\ AllDueSurplus(i) \in Nat
  BY <1>2, <1>3, <1>4, SumNat
<1>6. /\ received[i] \in Nat /\ surplus[i] \in Nat /\ credited[i] \in Nat
      /\ Excess(credited[i], expectedAmount[i]) \in Nat
  BY ExcessOf DEF TypeOK, DataOK
<1>7. /\ received[i] + AllDueReceived(i) =< credited[i]
      /\ surplus[i] + AllDueSurplus(i) =< Excess(credited[i], expectedAmount[i])
  BY DEF LedgerInv
<1> QED BY <1>5, <1>6, <1>7

\* Bookkeeping: however many workers post from sums that others have moved
\* past, and wherever they fail, the ledger of FundingService names no more
\* money received, and no more surplus, than there is.
THEOREM Bookkeeping == Spec => []LedgerNotOverstated
<1> DEFINE IInv == TypeOK /\ DecisionIsBacked /\ LedgerInv
<1>1. Init => IInv
  BY InitTypeOK, InitBacked, InitLedger
<1>2. IInv /\ [Next]_vars => IInv'
  BY NextTypeOK, NextDecision, NextLedger, NextCases
<1>3. IInv => LedgerNotOverstated
  BY LedgerInvImplies
<1> QED BY <1>1, <1>2, <1>3, PTL DEF Spec

-------------------------------------------------------------------------------
\* What the steps of applyObservation have still to bring up to date: the
\* ledger's receipt, the status, what the project knows, the case, the
\* reserve and the surplus, each with the steps before it is.
ReceiptDue == {"received"}
StatusDue == {"received", "update"}
TellingDue == {"received", "update", "apply"}
NoticeDue == {"received", "update", "apply", "notice"}
ReserveDue == {"received", "update", "apply", "notice", "reserve"}
Phases == {ReceiptDue, StatusDue, TellingDue, NoticeDue, ReserveDue, Recorded}

\* The sum that a record of an instruction agrees with: the one the worker
\* read, while the record is due, and else what is credited.
Known(w, i, due) ==
    IF Instr(w) = i /\ job[w].step \in due THEN job[w].seen ELSE credited[i]

\* Each record agrees with the sum it is based on: the last three, unless a
\* turn has thrown before it got to them.
Fits(w, i) ==
    LET status(due) == FundingStatus(Known(w, i, due), expectedAmount[i]) IN
    /\ received[i] = Known(w, i, ReceiptDue)
    /\ instrStatus[i] = status(StatusDue)
    /\ applied[i] = IF status(TellingDue) = "pending" THEN "none" ELSE status(TellingDue)
    /\ i \notin thrown =>
          /\ batchOf[i] \in incomplete => status(NoticeDue) = "partial"
          /\ reserved[i] = IF status(ReserveDue) = "reconciled" THEN 1 ELSE 0
          /\ surplus[i] = Excess(Known(w, i, Recorded), expectedAmount[i])

\* An instruction that was not created has no records.
Blank(i) ==
    /\ received[i] = 0 /\ instrStatus[i] = "pending" /\ applied[i] = "none"
    /\ reserved[i] = 0 /\ surplus[i] = 0 /\ credited[i] = 0

\* A project has one instruction, and none while the worker is about to make
\* one; every case is of a project with an instruction.
OneEach(w) ==
    /\ \A i, k \in Instructions : Exists(i) /\ batchOf[i] = batchOf[k] => i = k
    /\ job[w].step \in {"check", "create"} => \A i \in Instructions : batchOf[i] # job[w].batch
    /\ \A b \in incomplete : \E i \in Instructions : batchOf[i] = b

\* What the worker read is what is there, but for its own transfer.
ReadIsCurrent(w) ==
    /\ At(w, "insert") => job[w].seen = credited[Instr(w)]
    /\ job[w].step \in Recorded => NextCredited(w) = credited[Instr(w)]
    /\ At(w, "reserve") => NextStatus(w) = "reconciled" /\ PreviousStatus(w) # "reconciled"

AloneInv(w) ==
    /\ OneEach(w)
    /\ ReadIsCurrent(w)
    /\ \A i \in Instructions : IF Exists(i) THEN Fits(w, i) ELSE Blank(i)

\* Records that stay as they are still fit if the sums they are based on do.
LEMMA FitsStays ==
    ASSUME NEW w, NEW i \in Instructions, Fits(w, i),
           batchOf'[i] = batchOf[i], expectedAmount'[i] = expectedAmount[i],
           received'[i] = received[i], instrStatus'[i] = instrStatus[i],
           applied'[i] = applied[i], reserved'[i] = reserved[i], surplus'[i] = surplus[i],
           batchOf[i] \in incomplete' => batchOf[i] \in incomplete,
           i \in thrown => i \in thrown',
           \A due \in Phases : Known(w, i, due)' = Known(w, i, due)
    PROVE  Fits(w, i)'
<1>1. /\ Known(w, i, ReceiptDue)' = Known(w, i, ReceiptDue)
      /\ Known(w, i, StatusDue)' = Known(w, i, StatusDue)
      /\ Known(w, i, TellingDue)' = Known(w, i, TellingDue)
      /\ Known(w, i, NoticeDue)' = Known(w, i, NoticeDue)
      /\ Known(w, i, ReserveDue)' = Known(w, i, ReserveDue)
      /\ Known(w, i, Recorded)' = Known(w, i, Recorded)
  BY Zenon DEF Phases
<1> QED BY <1>1 DEF Fits

\* Whoever has recorded no transfer for an instruction leaves it all records
\* based on what is credited.
LEMMA KnownIsCredited ==
    ASSUME NEW w, NEW i, job[w].step \notin Recorded \/ Instr(w) # i
    PROVE  \A due \in Phases : Known(w, i, due) = credited[i]
BY DEF Known, Phases, ReceiptDue, StatusDue, TellingDue, NoticeDue, ReserveDue, Recorded

\* The same in the state after a step.
LEMMA KnownIsCreditedNext ==
    ASSUME NEW w, NEW i, job'[w].step \notin Recorded \/ Instr(w)' # i
    PROVE  \A due \in Phases : Known(w, i, due)' = credited'[i]
BY DEF Known, Phases, ReceiptDue, StatusDue, TellingDue, NoticeDue, ReserveDue, Recorded

\* The status of a sum, by the sum before.
LEMMA StatusOf ==
    ASSUME NEW e \in Nat, NEW c \in Nat, NEW paid \in Nat, paid > 0
    PROVE  /\ FundingStatus(0, e) = "pending"
           /\ FundingStatus(c + paid, e) \in {"partial", "reconciled"}
           /\ FundingStatus(c, e) = "reconciled" => FundingStatus(c + paid, e) = "reconciled"
BY DEF FundingStatus

\* A worker that works alone keeps AloneInv while it starts and ends
\* requests.
LEMMA StartsAlone ==
    ASSUME TypeOK, ~ MayFail, NEW w \in Workers, AloneInv(w), Starts(w)
    PROVE  AloneInv(w)'
<1> USE DEF instrVars, moneyVars, ledgerVars, worldVars, toldVars
<1>1. /\ Grows
      /\ UNCHANGED <<batchOf, expectedAmount, instrStatus, credited, received, reserved, surplus,
                     incomplete, applied, thrown>>
  BY StartsTypeOK
<1>2. PICK j \in Jobs : /\ j.step \in {"idle", "check", "create", "lookup"}
                       /\ job' = [job EXCEPT ![w] = j]
  BY StartsTypeOK
<1>3. job'[w] = j /\ job[w] \in Jobs
  BY <1>2 DEF TypeOK
<1>4. job[w].step \notin Recorded
  BY DEF Starts, EnsureLook, EnsureCheck, EnsureRefuse, EnsureMark, Scan, ScanFound,
         RecordsManually, RecordManual, Fail, At, Recorded
<1>5. job'[w].step \notin Recorded \cup {"insert"}
  BY <1>2, <1>3 DEF Recorded
<1>6. \A i \in Instructions : \A due \in Phases : Known(w, i, due)' = Known(w, i, due)
  <2> TAKE i \in Instructions
  <2>1. \A due \in Phases : Known(w, i, due) = credited[i]
    BY <1>4, KnownIsCredited
  <2>2. \A due \in Phases : Known(w, i, due)' = credited'[i]
    BY <1>5, KnownIsCreditedNext
  <2> QED BY <1>1, <2>1, <2>2
<1>7. \A i \in Instructions : IF Exists(i)' THEN Fits(w, i)' ELSE Blank(i)'
  <2> TAKE i \in Instructions
  <2>1. Exists(i)' = Exists(i)
    BY <1>1 DEF Exists
  <2>2. ASSUME Exists(i) PROVE Fits(w, i)'
    <3>1. Fits(w, i)
      BY <2>2 DEF AloneInv
    <3> QED BY <1>1, <1>6, <3>1, FitsStays
  <2>3. ASSUME ~ Exists(i) PROVE Blank(i)'
    BY <1>1, <2>3 DEF AloneInv, Blank
  <2> QED BY <2>1, <2>2, <2>3
<1>8. ReadIsCurrent(w)'
  BY <1>5 DEF ReadIsCurrent, At, Recorded
<1>9. OneEach(w)'
  <2>1. /\ \A i, k \in Instructions : Exists(i) /\ batchOf[i] = batchOf[k] => i = k
        /\ job[w].step \in {"check", "create"} => \A i \in Instructions : batchOf[i] # job[w].batch
        /\ \A b \in incomplete : \E i \in Instructions : batchOf[i] = b
    BY DEF AloneInv, OneEach
  <2>2. job'[w].step \in {"check", "create"} => \A i \in Instructions : batchOf[i] # job'[w].batch
    <3>1. ASSUME NEW b \in Batches, EnsureLook(w, b)
          PROVE  job'[w].batch = b /\ \A i \in Instructions : batchOf[i] # b
      <4> DEFINE l == [Idle EXCEPT !.step = "check", !.batch = b]
      <4>1. job'[w] = l
        BY <3>1 DEF EnsureLook, TypeOK
      <4>2. l.batch = b
        BY DEF Idle
      <4> QED BY <3>1, <4>1, <4>2 DEF EnsureLook
    <3>2. ASSUME NEW amount \in Totals, EnsureCheck(w, amount)
          PROVE  job'[w].batch = job[w].batch /\ job[w].step = "check"
      BY <1>3, <3>2 DEF EnsureCheck, At, TypeOK, Jobs
    <3>3. ASSUME \/ EnsureRefuse(w) \/ EnsureMark(w) \/ Fail(w)
                 \/ \E i \in Instructions : Scan(w, i)
                 \/ RecordsManually(w)
          PROVE  job'[w].step \notin {"check", "create"}
      <4>1. CASE EnsureRefuse(w) \/ EnsureMark(w) \/ Fail(w)
        <5>1. job'[w] = Idle
          BY <4>1 DEF EnsureRefuse, EnsureMark, Fail, Stop, TypeOK
        <5> QED BY <5>1 DEF Idle
      <4>2. ASSUME NEW i \in Instructions, Scan(w, i)
            PROVE  job'[w].step = "lookup"
        <5>1. PICK found : ScanFound(w, i, found)
          BY <4>2 DEF Scan
        <5>2. job'[w] = [Idle EXCEPT !.step = "lookup", !.instr = i, !.todo = found]
          BY <5>1 DEF ScanFound, TypeOK
        <5> QED BY <5>2 DEF Idle
      <4>3. ASSUME NEW i \in Instructions, NEW k \in Keys, NEW amount \in Typed,
                   RecordManual(w, i, k, amount)
            PROVE  job'[w].step = "lookup"
        <5>1. PICK from : job'[w] = [Idle EXCEPT !.step = "lookup", !.instr = i, !.todo = {k},
                                                 !.typed = amount, !.from = from]
          BY <4>3 DEF RecordManual, TypeOK
        <5> QED BY <5>1 DEF Idle
      <4> QED BY <3>3, <4>1, <4>2, <4>3 DEF RecordsManually
    <3> QED BY <2>1, <3>1, <3>2, <3>3 DEF Starts
  <2> QED BY <1>1, <2>1, <2>2 DEF OneEach, Exists
<1> QED BY <1>7, <1>8, <1>9 DEF AloneInv

\* An instruction that a worker, working alone, creates is the only one of
\* its project, and its records are those of an instruction nothing was
\* credited to.
LEMMA CreateAlone ==
    ASSUME TypeOK, NEW w \in Workers, AloneInv(w), NEW i \in Instructions, EnsureCreate(w, i)
    PROVE  AloneInv(w)'
<1> USE DEF instrVars, moneyVars, ledgerVars, worldVars, toldVars
<1>1. TypeOK'
  BY NextTypeOK DEF Step
<1>2. /\ UNCHANGED <<instrStatus, credited, received, reserved, surplus, incomplete, applied, thrown>>
      /\ job[w].step = "create" /\ ~ Exists(i) /\ GoTo(w, "mark")
      /\ batchOf' = [batchOf EXCEPT ![i] = job[w].batch]
      /\ expectedAmount' = [expectedAmount EXCEPT ![i] = job[w].ask]
  BY DEF EnsureCreate, At
<1>3. job[w] \in Jobs /\ job[w].batch \in Batches /\ job[w].batch # Nobody /\ job'[w].step = "mark"
  BY <1>2 DEF TypeOK, JobOK, Jobs, GoTo
<1>4. /\ batchOf'[i] = job[w].batch /\ expectedAmount'[i] = job[w].ask
      /\ \A k \in Instructions : k # i =>
            batchOf'[k] = batchOf[k] /\ expectedAmount'[k] = expectedAmount[k]
  BY <1>2 DEF TypeOK, DataOK
<1>5. /\ \A l, k \in Instructions : Exists(l) /\ batchOf[l] = batchOf[k] => l = k
      /\ \A l \in Instructions : batchOf[l] # job[w].batch
      /\ \A b \in incomplete : \E l \in Instructions : batchOf[l] = b
  BY <1>2 DEF AloneInv, OneEach
<1>6. OneEach(w)'
  <2>1. \A l, k \in Instructions : batchOf'[l] # Nobody /\ batchOf'[l] = batchOf'[k] => l = k
    <3> TAKE l, k \in Instructions
    <3>1. CASE l = i \/ k = i
      BY <1>4, <1>5, <3>1
    <3>2. CASE l # i /\ k # i
      BY <1>4, <1>5, <3>2 DEF Exists
    <3> QED BY <3>1, <3>2
  <2>2. \A b \in incomplete' : \E l \in Instructions : batchOf'[l] = b
    <3> TAKE b \in incomplete'
    <3>1. PICK l \in Instructions : batchOf[l] = b
      BY <1>2, <1>5
    <3>2. l # i
      BY <1>2, <3>1, NobodyAssumption DEF TypeOK, DataOK, Exists
    <3> QED BY <1>4, <3>1, <3>2
  <2> QED BY <1>3, <2>1, <2>2 DEF OneEach, Exists
<1>7. ReadIsCurrent(w)'
  BY <1>3 DEF ReadIsCurrent, At, Recorded
<1>8. \A k \in Instructions : \A due \in Phases : /\ Known(w, k, due) = credited[k]
                                                 /\ Known(w, k, due)' = credited[k]
  <2> TAKE k \in Instructions
  <2>1. job[w].step \notin Recorded /\ job'[w].step \notin Recorded
    BY <1>2, <1>3 DEF Recorded
  <2> QED BY <1>2, <2>1, KnownIsCredited, KnownIsCreditedNext
<1>9. ASSUME NEW k \in Instructions
      PROVE  IF Exists(k)' THEN Fits(w, k)' ELSE Blank(k)'
  <2>1. CASE k # i /\ ~ Exists(k)
    <3>1. Blank(k)
      BY <2>1 DEF AloneInv
    <3> QED BY <1>2, <1>4, <2>1, <3>1 DEF Exists, Blank
  <2>2. CASE k # i /\ Exists(k)
    <3>1. Fits(w, k)
      BY <2>2 DEF AloneInv
    <3>2. Fits(w, k)'
      BY <1>2, <1>4, <1>8, <2>2, <3>1, FitsStays
    <3> QED BY <1>4, <2>2, <3>2 DEF Exists
  <2>3. CASE k = i
    <3>1. Blank(i)
      BY <1>2 DEF AloneInv
    <3>2. /\ Known(w, i, ReceiptDue)' = 0 /\ Known(w, i, StatusDue)' = 0
          /\ Known(w, i, TellingDue)' = 0 /\ Known(w, i, NoticeDue)' = 0
          /\ Known(w, i, ReserveDue)' = 0 /\ Known(w, i, Recorded)' = 0
      BY <1>8, <3>1 DEF Phases, Blank
    <3>3. job[w].batch \notin incomplete
      BY <1>5
    <3>4. expectedAmount'[i] \in Nat
      BY <1>1 DEF TypeOK, DataOK
    <3>5. FundingStatus(0, expectedAmount'[i]) = "pending" /\ Excess(0, expectedAmount'[i]) = 0
      BY <3>4, ExcessOf DEF FundingStatus
    <3>6. Fits(w, i)'
      BY <1>2, <1>4, <3>1, <3>2, <3>3, <3>5 DEF Fits, Blank
    <3> QED BY <1>3, <1>4, <2>3, <3>6 DEF Exists
  <2> QED BY <2>1, <2>2, <2>3
<1> QED BY <1>6, <1>7, <1>9 DEF AloneInv

\* What a step of applyObservation does to the other instructions: nothing,
\* since their projects are others.
LEMMA OthersAlone ==
    ASSUME TypeOK, TypeOK', NEW w \in Workers, AloneInv(w), NEW a \in Instructions,
           job[w].step \in Applying, a = Instr(w),
           job'[w].step \notin Recorded \/ Instr(w)' = a,
           UNCHANGED <<batchOf, expectedAmount>>,
           \A k \in Instructions : k # a =>
              /\ received'[k] = received[k] /\ instrStatus'[k] = instrStatus[k]
              /\ applied'[k] = applied[k] /\ reserved'[k] = reserved[k]
              /\ surplus'[k] = surplus[k] /\ credited'[k] = credited[k]
              /\ k \in thrown => k \in thrown',
           \A b \in Batches : b # batchOf[a] => (b \in incomplete' <=> b \in incomplete),
           batchOf[a] \in incomplete' => batchOf[a] \in Batches,
           ReadIsCurrent(w)', Fits(w, a)', job'[w].step \notin {"check", "create"}
    PROVE  AloneInv(w)'
<1>1. Exists(a)
  BY AtWork
<1>2. OneEach(w)'
  <2>1. /\ \A i, k \in Instructions : Exists(i) /\ batchOf[i] = batchOf[k] => i = k
        /\ \A b \in incomplete : \E i \in Instructions : batchOf[i] = b
    BY DEF AloneInv, OneEach
  <2>2. \A b \in incomplete' : b \in Batches
    BY DEF TypeOK, DataOK
  <2>3. \A b \in incomplete' : \E i \in Instructions : batchOf[i] = b
    BY <2>1, <2>2
  <2> QED BY <2>1, <2>3 DEF OneEach, Exists
<1>3. ASSUME NEW k \in Instructions, k # a
      PROVE  IF Exists(k)' THEN Fits(w, k)' ELSE Blank(k)'
  <2>1. \A due \in Phases : Known(w, k, due) = credited[k]
    BY <1>3, KnownIsCredited
  <2>2. \A due \in Phases : Known(w, k, due)' = credited'[k]
    <3>1. job'[w].step \notin Recorded \/ Instr(w)' # k
      BY <1>3
    <3> QED BY <3>1, KnownIsCreditedNext
  <2>3. CASE Exists(k)
    <3>1. Fits(w, k) /\ batchOf[k] \in Batches /\ batchOf[k] # batchOf[a]
      BY <1>1, <1>3, <2>3 DEF AloneInv, OneEach, Exists, TypeOK, DataOK
    <3>2. batchOf[k] \in incomplete' => batchOf[k] \in incomplete
      BY <3>1
    <3>3. Fits(w, k)'
      BY <1>3, <2>1, <2>2, <3>1, <3>2, FitsStays
    <3> QED BY <2>3, <3>3 DEF Exists
  <2>4. CASE ~ Exists(k)
    <3>1. Blank(k)
      BY <2>4 DEF AloneInv
    <3> QED BY <1>3, <2>4, <3>1 DEF Exists, Blank
  <2> QED BY <2>3, <2>4
<1>4. \A k \in Instructions : IF Exists(k)' THEN Fits(w, k)' ELSE Blank(k)'
  BY <1>1, <1>3 DEF Exists
<1> QED BY <1>2, <1>4 DEF AloneInv

\* Where a worker is after a step.
LEMMA Leaves ==
    ASSUME TypeOK, NEW w \in Workers
    PROVE  /\ Stop(w) \/ TurnToNext(w) => job'[w].step \in {"idle", "lookup"}
           /\ \A s : GoTo(w, s) =>
                 /\ job'[w].step = s /\ job'[w].instr = job[w].instr
                 /\ job'[w].todo = job[w].todo /\ job'[w].seen = job[w].seen /\ job'[w].typed = job[w].typed
<1>1. job[w] \in Jobs
  BY DEF TypeOK
<1>2. ASSUME Stop(w) PROVE job'[w].step = "idle"
  <2>1. job'[w] = Idle
    BY <1>2 DEF Stop, TypeOK
  <2> QED BY <2>1 DEF Idle
<1>3. ASSUME TurnToNext(w), ~ Stop(w) PROVE job'[w].step = "lookup"
  <2> DEFINE j == [Idle EXCEPT !.step = "lookup", !.instr = Instr(w),
                               !.todo = job[w].todo \ {Current(w)}]
  <2>1. job'[w] = j
    BY <1>3 DEF TurnToNext, TypeOK
  <2>2. j.step = "lookup"
    BY DEF Idle
  <2> QED BY <2>1, <2>2
<1>4. ASSUME NEW s, GoTo(w, s)
      PROVE  /\ job'[w].step = s /\ job'[w].instr = job[w].instr
             /\ job'[w].todo = job[w].todo /\ job'[w].seen = job[w].seen /\ job'[w].typed = job[w].typed
  <2> DEFINE j == [job[w] EXCEPT !.step = s]
  <2>1. job'[w] = j
    BY <1>4 DEF GoTo, TypeOK
  <2>2. j.step = s /\ j.instr = job[w].instr /\ j.todo = job[w].todo /\ j.seen = job[w].seen /\ j.typed = job[w].typed
    BY <1>1 DEF Jobs
  <2> QED BY <2>1, <2>2
<1> QED BY <1>2, <1>3, <1>4

\* A worker, working alone, that looks a transfer up, reads what is
\* credited, or finds the transfer recorded or not acceptable, keeps
\* AloneInv.
LEMMA LooksAlone ==
    ASSUME TypeOK, NEW w \in Workers, AloneInv(w),
           \/ Lookup(w) \/ ReadCredited(w)
           \/ Insert(w) /\ UNCHANGED credited /\ (Stop(w) \/ TurnToNext(w))
    PROVE  AloneInv(w)'
<1> USE DEF instrVars, moneyVars, ledgerVars, worldVars, toldVars
<1>1. /\ UNCHANGED <<batchOf, expectedAmount, instrStatus, credited, received, reserved, surplus,
                     incomplete, applied, thrown>>
      /\ job[w].step \in {"lookup", "read", "insert"}
  BY DEF Lookup, ReadCredited, Insert, At
<1>2. job[w].step \in Applying /\ job[w].step \notin Recorded
  BY <1>1 DEF Applying, Recorded
<1>3. TypeOK'
  BY ApplyTypeOK
<1>4. PICK a \in Instructions : a = Instr(w)
  BY <1>2, AtWork
<1>5. Exists(a) /\ Fits(w, a) /\ batchOf[a] \in Batches
  BY <1>2, <1>4, AtWork DEF AloneInv, Exists, TypeOK, DataOK
<1>6. \/ job'[w].step \in {"idle", "lookup", "read"}
      \/ job'[w].step = "insert" /\ job'[w].seen = credited[a] /\ job'[w].instr = a
  <2>1. CASE ReadCredited(w)
    <3> DEFINE j == [job[w] EXCEPT !.step = "insert", !.seen = credited[Instr(w)],
                                   !.ok = Accepts(Source(w))]
    <3>1. job'[w] = j /\ job[w] \in Jobs
      BY <2>1 DEF ReadCredited, TypeOK
    <3>2. j.step = "insert" /\ j.seen = credited[Instr(w)] /\ j.instr = Instr(w)
      BY <3>1 DEF Jobs, Instr
    <3> HIDE DEF j
    <3> QED BY <1>4, <3>1, <3>2
  <2>2. CASE ~ ReadCredited(w)
    <3>1. Stop(w) \/ TurnToNext(w) \/ GoTo(w, "read")
      BY <2>2 DEF Lookup
    <3> QED BY <3>1, Leaves
  <2> QED BY <2>1, <2>2
<1>7. job'[w].step \notin Recorded \cup {"check", "create"}
  BY <1>6 DEF Recorded
<1>8. ReadIsCurrent(w)'
  <2>1. At(w, "insert")' => job'[w].seen = credited'[Instr(w)']
    BY <1>1, <1>6 DEF At, Instr
  <2> QED BY <1>7, <2>1 DEF ReadIsCurrent, At, Recorded
<1>9. Fits(w, a)'
  <2>1. \A due \in Phases : Known(w, a, due) = credited[a]
    BY <1>2, KnownIsCredited
  <2>2. \A due \in Phases : Known(w, a, due)' = credited'[a]
    BY <1>7, KnownIsCreditedNext
  <2> QED BY <1>1, <1>5, <2>1, <2>2, FitsStays
<1> QED BY <1>1, <1>2, <1>3, <1>4, <1>5, <1>7, <1>8, <1>9, OthersAlone

\* The sums that the records of an instruction agree with, when its worker
\* has recorded the transfer and is at the given step.
LEMMA KnownAt ==
    ASSUME NEW w, NEW a, Instr(w) = a, job[w].step \in Recorded
    PROVE  LET known(behind) == IF job[w].step \in behind THEN job[w].seen ELSE credited[a] IN
           /\ Known(w, a, ReceiptDue) = known({"received"})
           /\ Known(w, a, StatusDue) = known({"received", "update"})
           /\ Known(w, a, TellingDue) = known({"received", "update", "apply"})
           /\ Known(w, a, NoticeDue) = known({"received", "update", "apply", "notice"})
           /\ Known(w, a, ReserveDue) = known({"received", "update", "apply", "notice", "reserve"})
           /\ Known(w, a, Recorded) = job[w].seen
BY DEF Known, ReceiptDue, StatusDue, TellingDue, NoticeDue, ReserveDue

\* The same in the state after a step.
LEMMA KnownAtNext ==
    ASSUME NEW w, NEW a, Instr(w)' = a, job'[w].step \in Recorded
    PROVE  LET known(behind) == IF job'[w].step \in behind THEN job'[w].seen ELSE credited'[a] IN
           /\ Known(w, a, ReceiptDue)' = known({"received"})
           /\ Known(w, a, StatusDue)' = known({"received", "update"})
           /\ Known(w, a, TellingDue)' = known({"received", "update", "apply"})
           /\ Known(w, a, NoticeDue)' = known({"received", "update", "apply", "notice"})
           /\ Known(w, a, ReserveDue)' = known({"received", "update", "apply", "notice", "reserve"})
           /\ Known(w, a, Recorded)' = job'[w].seen
BY DEF Known, ReceiptDue, StatusDue, TellingDue, NoticeDue, ReserveDue

\* A worker, working alone, that records an accepted transfer leaves every
\* record based on the sum it read.
LEMMA CreditsAlone ==
    ASSUME TypeOK, NEW w \in Workers, AloneInv(w), Insert(w), GoTo(w, "received")
    PROVE  AloneInv(w)'
<1> USE DEF instrVars, moneyVars, ledgerVars, worldVars, toldVars
<1>1. /\ UNCHANGED <<batchOf, expectedAmount, instrStatus, received, reserved, surplus,
                     incomplete, applied, thrown>>
      /\ job[w].step = "insert"
  BY DEF Insert, At
<1>2. job[w].step \in Applying /\ job[w].step \notin Recorded
  BY <1>1 DEF Applying, Recorded
<1>3. TypeOK'
  BY ApplyTypeOK
<1>4. /\ job'[w].step = "received" /\ job'[w].instr = job[w].instr
      /\ job'[w].todo = job[w].todo /\ job'[w].seen = job[w].seen /\ job'[w].typed = job[w].typed
  BY Leaves
<1>5. PICK a \in Instructions : a = Instr(w)
  BY <1>2, AtWork
<1>6. Exists(a) /\ Fits(w, a) /\ batchOf[a] \in Batches
  BY <1>2, <1>5, AtWork DEF AloneInv, Exists, TypeOK, DataOK
<1>7. credited' = [credited EXCEPT ![Instr(w)] = @ + Paid(w)]
  BY <1>4, Leaves DEF Insert
<1>8. job[w].seen = credited[a]
  BY <1>1, <1>5 DEF AloneInv, ReadIsCurrent, At
<1>9. Instr(w)' = a /\ Paid(w)' = Paid(w)
  BY <1>4, <1>5 DEF Instr, Current, Paid, ByHand
<1>10. NextCredited(w)' = credited'[a]
  BY <1>4, <1>5, <1>7, <1>8, <1>9 DEF NextCredited, TypeOK, DataOK
<1>11. ReadIsCurrent(w)'
  BY <1>4, <1>9, <1>10 DEF ReadIsCurrent, At
<1>12. Fits(w, a)'
  <2>1. \A due \in Phases : Known(w, a, due) = credited[a]
    BY <1>2, KnownIsCredited
  <2>2. \A due \in Phases : Known(w, a, due)' = credited[a]
    BY <1>4, <1>8, <1>9 DEF Known, Phases, ReceiptDue, StatusDue, TellingDue, NoticeDue,
                            ReserveDue, Recorded
  <2> QED BY <1>1, <1>6, <2>1, <2>2, FitsStays
<1>13. \A k \in Instructions : k # a => credited'[k] = credited[k]
  BY <1>5, <1>7 DEF TypeOK, DataOK
<1> QED BY <1>1, <1>2, <1>3, <1>4, <1>5, <1>6, <1>9, <1>11, <1>12, <1>13, OthersAlone

\* A worker, working alone, that has recorded its transfer brings the
\* records up to date one by one.
LEMMA PostsAlone ==
    ASSUME TypeOK, NEW w \in Workers, AloneInv(w),
           \/ PostReceived(w) \/ UpdateStatus(w) \/ (\E throws \in BOOLEAN : Apply(w, throws))
           \/ Notice(w) \/ PostReserved(w) \/ PostSurplus(w)
    PROVE  AloneInv(w)'
<1> USE DEF instrVars, moneyVars, ledgerVars, worldVars, toldVars
<1>1. UNCHANGED <<batchOf, expectedAmount, credited>> /\ job[w].step \in Recorded
  BY DEF PostReceived, UpdateStatus, Apply, Notice, PostReserved, PostSurplus, At, Recorded
<1>2. job[w].step \in Applying
  BY <1>1 DEF Applying
<1>3. TypeOK'
  BY ApplyTypeOK
<1>4. PICK a \in Instructions : a = Instr(w)
  BY <1>2, AtWork
<1>5. Exists(a) /\ Fits(w, a) /\ batchOf[a] \in Batches
  BY <1>2, <1>4, AtWork DEF AloneInv, Exists, TypeOK, DataOK
<1> DEFINE seen == job[w].seen
           paid == Paid(w)
           asked == expectedAmount[a]
           total == credited[a]
<1>6. /\ seen \in Nat /\ paid \in Nat /\ paid > 0 /\ asked \in Nat
      /\ total = seen + paid /\ NextCredited(w) = total
  BY <1>1, <1>2, <1>4, AtWork DEF AloneInv, ReadIsCurrent, NextCredited
<1>7. /\ PreviousStatus(w) = FundingStatus(seen, asked)
      /\ NextStatus(w) = FundingStatus(total, asked)
      /\ SurplusDelta(w) = Excess(total, asked) - Excess(seen, asked)
  BY <1>4, <1>6 DEF PreviousStatus, NextStatus, SurplusDelta
<1>8. /\ FundingStatus(total, asked) \in {"partial", "reconciled"}
      /\ FundingStatus(seen, asked) = "reconciled" => FundingStatus(total, asked) = "reconciled"
      /\ Excess(total, asked) \in Nat /\ Excess(seen, asked) \in Nat
  <2> HIDE DEF seen, paid, asked, total
  <2>1. FundingStatus(seen + paid, asked) \in {"partial", "reconciled"}
    BY <1>6, StatusOf
  <2>2. FundingStatus(seen, asked) = "reconciled" => FundingStatus(seen + paid, asked) = "reconciled"
    BY <1>6, StatusOf
  <2>3. total \in Nat
    BY <1>6
  <2>4. Excess(total, asked) \in Nat /\ Excess(seen, asked) \in Nat
    BY <1>6, <2>3, ExcessOf
  <2> QED BY <1>6, <2>1, <2>2, <2>4
<1>9. /\ received \in [Instructions -> Nat] /\ instrStatus \in [Instructions -> {"pending", "partial", "reconciled"}]
      /\ applied \in [Instructions -> {"none", "partial", "reconciled"}]
      /\ reserved \in [Instructions -> Nat] /\ surplus \in [Instructions -> Nat]
  BY DEF TypeOK, DataOK
<1>10. At(w, "reserve") => /\ FundingStatus(total, asked) = "reconciled"
                          /\ FundingStatus(seen, asked) # "reconciled"
  BY <1>7 DEF AloneInv, ReadIsCurrent
<1> DEFINE known(behind) == IF job[w].step \in behind THEN seen ELSE total
           Moves(s) == /\ job'[w].step = s /\ job'[w].instr = job[w].instr
                       /\ job'[w].todo = job[w].todo /\ job'[w].seen = job[w].seen /\ job'[w].typed = job[w].typed
           Others == \A k \in Instructions : k # a =>
              /\ received'[k] = received[k] /\ instrStatus'[k] = instrStatus[k]
              /\ applied'[k] = applied[k] /\ reserved'[k] = reserved[k]
              /\ surplus'[k] = surplus[k] /\ credited'[k] = credited[k]
              /\ k \in thrown => k \in thrown'
           Cases == /\ \A b \in Batches : b # batchOf[a] => (b \in incomplete' <=> b \in incomplete)
                    /\ batchOf[a] \in incomplete' => batchOf[a] \in Batches
\* What the records agree with before the step.
<1>11. /\ Known(w, a, ReceiptDue) = known({"received"})
       /\ Known(w, a, StatusDue) = known({"received", "update"})
       /\ Known(w, a, TellingDue) = known({"received", "update", "apply"})
       /\ Known(w, a, NoticeDue) = known({"received", "update", "apply", "notice"})
       /\ Known(w, a, ReserveDue) = known({"received", "update", "apply", "notice", "reserve"})
       /\ Known(w, a, Recorded) = seen
  BY <1>1, <1>4, KnownAt
<1>12. LET status(behind) == FundingStatus(known(behind), asked)
           told == status({"received", "update", "apply"}) IN
       /\ received[a] = known({"received"})
       /\ instrStatus[a] = status({"received", "update"})
       /\ applied[a] = IF told = "pending" THEN "none" ELSE told
       /\ a \notin thrown =>
             /\ batchOf[a] \in incomplete => status({"received", "update", "apply", "notice"}) = "partial"
             /\ reserved[a] = IF status({"received", "update", "apply", "notice", "reserve"}) = "reconciled"
                              THEN 1 ELSE 0
             /\ surplus[a] = Excess(seen, asked)
  BY <1>5, <1>11 DEF Fits
\* Moving on within the transfer.
<1>13. ASSUME NEW s \in Recorded, Moves(s), Others, Cases,
              s = "reserve" => /\ FundingStatus(total, asked) = "reconciled"
                               /\ FundingStatus(seen, asked) # "reconciled",
              LET now(behind) == IF s \in behind THEN seen ELSE total
                  status(behind) == FundingStatus(now(behind), asked)
                  told == status({"received", "update", "apply"}) IN
              /\ received'[a] = now({"received"})
              /\ instrStatus'[a] = status({"received", "update"})
              /\ applied'[a] = IF told = "pending" THEN "none" ELSE told
              /\ a \notin thrown' =>
                    /\ batchOf[a] \in incomplete'
                          => status({"received", "update", "apply", "notice"}) = "partial"
                    /\ reserved'[a] = IF status({"received", "update", "apply", "notice", "reserve"})
                                            = "reconciled" THEN 1 ELSE 0
                    /\ surplus'[a] = Excess(seen, asked)
       PROVE  AloneInv(w)'
  <2>1. Instr(w)' = a /\ Paid(w)' = Paid(w) /\ job'[w].step = s /\ job'[w].seen = seen
    BY <1>4, <1>13 DEF Instr, Current, Paid, ByHand
  <2> DEFINE now(behind) == IF s \in behind THEN seen ELSE total
  <2>2. /\ Known(w, a, ReceiptDue)' = now({"received"})
        /\ Known(w, a, StatusDue)' = now({"received", "update"})
        /\ Known(w, a, TellingDue)' = now({"received", "update", "apply"})
        /\ Known(w, a, NoticeDue)' = now({"received", "update", "apply", "notice"})
        /\ Known(w, a, ReserveDue)' = now({"received", "update", "apply", "notice", "reserve"})
        /\ Known(w, a, Recorded)' = seen
    BY <1>1, <1>13, <2>1, KnownAtNext
  <2>3. Fits(w, a)'
    BY <1>1, <1>13, <2>2 DEF Fits
  <2>4. NextCredited(w)' = total /\ NextStatus(w)' = NextStatus(w)
        /\ PreviousStatus(w)' = PreviousStatus(w)
    BY <1>1, <1>4, <1>6, <2>1 DEF NextCredited, NextStatus, PreviousStatus
  <2>5. ReadIsCurrent(w)'
    BY <1>1, <1>7, <1>13, <2>1, <2>4 DEF ReadIsCurrent, At, Recorded
  <2>6. job'[w].step \notin {"check", "create"}
    BY <1>13 DEF Recorded
  <2> QED BY <1>1, <1>2, <1>3, <1>4, <1>13, <2>1, <2>3, <2>5, <2>6, OthersAlone
<1>14. CASE PostReceived(w)
  <2>1. job[w].step = "received" /\ received' = [received EXCEPT ![a] = @ + paid]
        /\ UNCHANGED <<instrStatus, applied, thrown, reserved, surplus, incomplete>>
    BY <1>4, <1>14 DEF PostReceived, At
  <2>2. Moves("update")
    BY <1>14, Leaves DEF PostReceived
  <2>3. received'[a] = total /\ Others /\ Cases
    BY <1>1, <1>5, <1>6, <1>9, <1>12, <2>1
  <2> HIDE DEF seen, paid, asked, total, Moves, Others, Cases
  <2> QED BY <1>12, <1>13, <2>1, <2>2, <2>3 DEF Recorded
<1>15. CASE UpdateStatus(w)
  <2>1. job[w].step = "update" /\ instrStatus' = [instrStatus EXCEPT ![a] = NextStatus(w)]
        /\ UNCHANGED <<received, applied, thrown, reserved, surplus, incomplete>>
    BY <1>4, <1>15 DEF UpdateStatus, At
  <2>2. Moves("apply")
    BY <1>15, Leaves DEF UpdateStatus
  <2>3. instrStatus'[a] = FundingStatus(total, asked) /\ Others /\ Cases
    BY <1>1, <1>5, <1>7, <1>9, <2>1
  <2> HIDE DEF seen, paid, asked, total, Moves, Others, Cases
  <2> QED BY <1>12, <1>13, <2>1, <2>2, <2>3 DEF Recorded
<1>16. CASE Apply(w, FALSE)
  <2>1. job[w].step = "apply" /\ applied' = [applied EXCEPT ![a] = NextStatus(w)]
        /\ UNCHANGED <<received, instrStatus, reserved, surplus, incomplete, thrown>>
    BY <1>4, <1>16 DEF Apply, At
  <2>2. Moves("notice")
    BY <1>16, Leaves DEF Apply
  <2>3. applied'[a] = FundingStatus(total, asked) /\ Others /\ Cases
    BY <1>1, <1>5, <1>7, <1>9, <2>1
  <2> HIDE DEF seen, paid, asked, total, Moves, Others, Cases
  <2> QED BY <1>8, <1>12, <1>13, <2>1, <2>2, <2>3 DEF Recorded
<1>20. CASE Apply(w, TRUE)
  <2>1. /\ job[w].step = "apply" /\ applied' = [applied EXCEPT ![a] = NextStatus(w)]
        /\ thrown' = thrown \cup {a}
        /\ UNCHANGED <<received, instrStatus, reserved, surplus, incomplete>>
    BY <1>4, <1>20 DEF Apply, At
  <2>2. job'[w].step \in {"idle", "lookup"}
    BY <1>20, Leaves DEF Apply
  <2>3. applied'[a] = FundingStatus(total, asked) /\ Others /\ Cases
    BY <1>1, <1>5, <1>7, <1>9, <2>1
  <2>5. job'[w].step \notin Recorded \cup {"check", "create", "insert"}
    BY <2>2 DEF Recorded
  <2>6. \A due \in Phases : Known(w, a, due)' = total
    BY <1>1, <2>5, KnownIsCreditedNext
  <2>7. received'[a] = total /\ instrStatus'[a] = FundingStatus(total, asked) /\ a \in thrown'
    BY <1>12, <2>1
  <2>8. Fits(w, a)'
    BY <1>1, <1>8, <2>3, <2>6, <2>7 DEF Fits, Phases
  <2>9. ReadIsCurrent(w)'
    BY <2>5 DEF ReadIsCurrent, At, Recorded
  <2> QED BY <1>1, <1>2, <1>3, <1>4, <2>3, <2>5, <2>8, <2>9, OthersAlone
<1>17. CASE Notice(w)
  <2>1. job[w].step = "notice" /\ UNCHANGED <<received, instrStatus, applied, thrown, reserved, surplus>>
    BY <1>17 DEF Notice, At
  <2>2. Others /\ Cases /\ (batchOf[a] \in incomplete' => FundingStatus(total, asked) = "partial")
    BY <1>1, <1>4, <1>5, <1>7, <1>17 DEF Notice
  <2>3. PICK s \in {"reserve", "surplus"} :
           /\ GoTo(w, s)
           /\ s = "reserve" <=> /\ FundingStatus(total, asked) # "partial"
                                /\ FundingStatus(seen, asked) # "reconciled"
    BY <1>7, <1>17 DEF Notice
  <2>4. Moves(s)
    BY <2>3, Leaves
  <2> HIDE DEF seen, paid, asked, total, Moves, Others, Cases
  <2> QED BY <1>8, <1>12, <1>13, <2>1, <2>2, <2>3, <2>4 DEF Recorded
<1>18. CASE PostReserved(w)
  <2>1. job[w].step = "reserve" /\ reserved' = [reserved EXCEPT ![a] = @ + 1]
        /\ UNCHANGED <<received, instrStatus, applied, thrown, surplus, incomplete>>
    BY <1>4, <1>18 DEF PostReserved, At
  <2>2. Moves("surplus")
    BY <1>18, Leaves DEF PostReserved
  <2>3. reserved'[a] = reserved[a] + 1 /\ Others /\ Cases
    BY <1>1, <1>5, <1>9, <2>1
  <2>4. /\ FundingStatus(total, asked) = "reconciled"
        /\ FundingStatus(seen, asked) # "reconciled"
    BY <1>10, <2>1 DEF At
  <2> HIDE DEF seen, paid, asked, total, Moves, Others, Cases
  <2> QED BY <1>12, <1>13, <2>1, <2>2, <2>3, <2>4 DEF Recorded
<1>19. CASE PostSurplus(w)
  <2>1. job[w].step = "surplus" /\ surplus' = [surplus EXCEPT ![a] = @ + SurplusDelta(w)]
        /\ UNCHANGED <<received, instrStatus, applied, thrown, reserved, incomplete>>
    BY <1>4, <1>19 DEF PostSurplus, At
  <2>2. job'[w].step \in {"idle", "lookup"}
    BY <1>19, Leaves DEF PostSurplus
  <2>3. surplus'[a] = surplus[a] + SurplusDelta(w) /\ Others /\ Cases
    BY <1>1, <1>5, <1>9, <2>1
  <2>4. a \notin thrown => surplus'[a] = Excess(total, asked)
    <3>1. a \notin thrown => surplus[a] = Excess(seen, asked)
      BY <1>12
    <3> HIDE DEF seen, asked, total
    <3> QED BY <1>7, <1>8, <2>3, <3>1
  <2>5. job'[w].step \notin Recorded \cup {"check", "create", "insert"}
    BY <2>2 DEF Recorded
  <2>6. \A due \in Phases : Known(w, a, due)' = total
    BY <1>1, <2>5, KnownIsCreditedNext
  <2>7. Fits(w, a)'
    BY <1>1, <1>12, <2>1, <2>4, <2>6 DEF Fits, Phases
  <2>8. ReadIsCurrent(w)'
    BY <2>5 DEF ReadIsCurrent, At, Recorded
  <2> QED BY <1>1, <1>2, <1>3, <1>4, <2>3, <2>5, <2>7, <2>8, OthersAlone
<1>21. CASE \E throws \in BOOLEAN : Apply(w, throws)
  BY <1>16, <1>20, <1>21
<1> QED BY <1>14, <1>15, <1>17, <1>18, <1>19, <1>21

\* A worker that works alone, where nothing fails, keeps AloneInv.
LEMMA NextAlone ==
    ASSUME NEW w, Workers = {w}, ~ MayFail, TypeOK, AloneInv(w), [Next]_vars
    PROVE  AloneInv(w)'
<1> USE DEF instrVars, moneyVars, ledgerVars, worldVars, toldVars
<1>1. w \in Workers
  OBVIOUS
<1>2. ASSUME UNCHANGED <<batchOf, expectedAmount, instrStatus, credited, ledgerVars, incomplete,
                         applied, thrown, job>>
      PROVE  AloneInv(w)'
  BY <1>2 DEF AloneInv, OneEach, ReadIsCurrent, Fits, Blank, Known, Exists, At, Instr,
              NextCredited, NextStatus, PreviousStatus, Current, Paid, ByHand
<1>3. CASE \/ \E d \in Deposits, i \in Instructions : Send(d, i)
           \/ \E S \in SUBSET Wallets : UpdateWallets(S)
           \/ UNCHANGED vars
  BY <1>2, <1>3 DEF Send, UpdateWallets, vars
<1>4. CASE \E S \in SUBSET Wallets : Restart(S)
  BY <1>4 DEF Restart
<1>5. CASE Starts(w)
  BY <1>1, <1>5, StartsAlone
<1>6. CASE \E i \in Instructions : EnsureCreate(w, i)
  BY <1>1, <1>6, CreateAlone
<1>7. CASE Lookup(w) \/ ReadCredited(w) \/ Insert(w)
  BY <1>1, <1>7, LooksAlone, CreditsAlone DEF Insert
<1>8. CASE \/ PostReceived(w) \/ UpdateStatus(w) \/ (\E throws \in BOOLEAN : Apply(w, throws))
           \/ Notice(w) \/ PostReserved(w) \/ PostSurplus(w)
  BY <1>1, <1>8, PostsAlone
<1>10. ASSUME NEW b \in Batches, ResolveException(b)
       PROVE  AloneInv(w)'
  <2>1. /\ UNCHANGED <<batchOf, expectedAmount, instrStatus, credited, ledgerVars, applied, thrown,
                       job>>
        /\ incomplete' \subseteq incomplete
    BY <1>10 DEF ResolveException
  <2>2. OneEach(w)' /\ ReadIsCurrent(w)'
    BY <2>1 DEF AloneInv, OneEach, ReadIsCurrent, Exists, At, Instr, NextCredited, NextStatus,
                PreviousStatus, Current, Paid, ByHand
  <2>3. ASSUME NEW i \in Instructions
        PROVE  IF Exists(i)' THEN Fits(w, i)' ELSE Blank(i)'
    <3>1. CASE Exists(i)
      <4>1. Fits(w, i)
        BY <3>1 DEF AloneInv
      <4>2. \A due \in Phases : Known(w, i, due)' = Known(w, i, due)
        BY <2>1 DEF Known, Instr
      <4>3. Fits(w, i)'
        BY <2>1, <4>1, <4>2, FitsStays
      <4> QED BY <2>1, <3>1, <4>3 DEF Exists
    <3>2. CASE ~ Exists(i)
      BY <2>1, <3>2 DEF AloneInv, Exists, Blank
    <3> QED BY <3>1, <3>2
  <2> QED BY <2>2, <2>3 DEF AloneInv
<1>9. CASE Next
  <2>1. ASSUME NEW v \in Workers,
               \/ \E b \in Batches : EnsureLook(v, b)
               \/ \E i \in Instructions : Scan(v, i)
               \/ RecordsManually(v) \/ Proceed(v) \/ Fail(v)
        PROVE  AloneInv(w)'
    <3>1. v = w
      BY <2>1
    <3> QED BY <1>5, <1>6, <1>7, <1>8, <2>1, <3>1 DEF Proceed, Starts
  <2> QED BY <1>3, <1>4, <1>9, <1>10, <2>1 DEF Next
<1> QED BY <1>3, <1>9

\* At first no instruction is created, and none has records.
LEMMA InitAlone == ASSUME Init, NEW w \in Workers PROVE AloneInv(w)
BY NobodyAssumption DEF Init, AloneInv, OneEach, ReadIsCurrent, Blank, Exists, At, Idle, Recorded

\* A worker that rests has brought all records up to date.
LEMMA AloneInvImplies ==
    ASSUME NEW w, Workers = {w}, AloneInv(w)
    PROVE  AtRestConsistent
<1>1. SUFFICES ASSUME At(w, "idle"), NEW i \in Instructions, Exists(i)
               PROVE  LET s == FundingStatus(credited[i], expectedAmount[i]) IN
                      /\ instrStatus[i] = s
                      /\ applied[i] = IF s = "pending" THEN "none" ELSE s
                      /\ received[i] = credited[i]
                      /\ i \notin thrown =>
                            /\ reserved[i] = IF s = "reconciled" THEN 1 ELSE 0
                            /\ surplus[i] = Excess(credited[i], expectedAmount[i])
                            /\ batchOf[i] \in incomplete => s = "partial"
  BY DEF AtRestConsistent
<1>2. job[w].step \notin Recorded
  BY <1>1 DEF At, Recorded
<1>3. \A due \in Phases : Known(w, i, due) = credited[i]
  BY <1>2, KnownIsCredited
<1>4. Fits(w, i)
  BY <1>1 DEF AloneInv
<1> QED BY <1>3, <1>4 DEF Fits, Phases

\* At rest: where one request runs at a time and no call fails, a finished
\* run of applyObservation leaves the status, the project and the funding
\* received in agreement with what is credited, and the case, the
\* reservation and the surplus too unless the dispatch has thrown, for any
\* number of projects, instructions and transfers.  One request at a time is a real condition: two scans that
\* overlap may leave a status behind that is older than the credit (the run
\* stale_read).
THEOREM AtRest == ASSUME NEW w, Workers = {w}, ~ MayFail PROVE Spec => []AtRestConsistent
<1> DEFINE IInv == TypeOK /\ AloneInv(w)
<1>1. Init => IInv
  BY InitTypeOK, InitAlone
<1>2. IInv /\ [Next]_vars => IInv'
  BY NextTypeOK, NextCases, NextAlone
<1>3. IInv => AtRestConsistent
  BY AloneInvImplies
<1> QED BY <1>1, <1>2, <1>3, PTL DEF Spec

-------------------------------------------------------------------------------
\* Every step of Funding is a step of Reconciliation, or changes nothing
\* that Reconciliation speaks of.
LEMMA NextPromise ==
    ASSUME TypeOK, DecisionIsBacked, [Step]_vars
    PROVE  [Promise!Next]_(Promise!vars)
<1> USE DEF instrVars, moneyVars, ledgerVars, worldVars, toldVars
<1> DEFINE asked == [i \in Instructions |-> IF Exists(i) THEN expectedAmount[i] ELSE -1]
<1>1. ASSUME UNCHANGED <<batchOf, expectedAmount, credited, covered>>
      PROVE  UNCHANGED Promise!vars
  BY <1>1 DEF Promise!vars, Exists
<1>2. ASSUME NEW w \in Workers, NEW i \in Instructions, EnsureCreate(w, i)
      PROVE  Promise!Ask(i)
  <2>1. job[w].batch \in Batches /\ job[w].batch # Nobody /\ job[w].ask \in Nat
    BY <1>2 DEF EnsureCreate, TypeOK, JobOK, At, Jobs
  <2>2. asked[i] = -1 /\ asked'[i] = job[w].ask
    BY <1>2, <2>1 DEF EnsureCreate, Exists, TypeOK, DataOK
  <2>3. asked' = [asked EXCEPT ![i] = asked'[i]]
    BY <1>2, <2>1 DEF EnsureCreate, Exists, TypeOK, DataOK
  <2> QED BY <1>2, <2>1, <2>2, <2>3 DEF Promise!Ask, EnsureCreate
<1>3. ASSUME NEW w \in Workers, Insert(w)
      PROVE  (Promise!Credit(Instr(w)) /\ Instr(w) \in Instructions) \/ UNCHANGED Promise!vars
  <2> DEFINE i == Instr(w)
  <2>1. /\ i \in Instructions /\ Exists(i) /\ expectedAmount[i] \in Nat
        /\ Paid(w) \in Nat /\ Paid(w) > 0
    BY <1>3, AtWork DEF Insert, At, Applying
  <2>2. CASE credited' = [credited EXCEPT ![i] = @ + Paid(w)]
    <3>1. credited'[i] = credited[i] + Paid(w) /\ credited[i] \in Nat
      BY <2>1, <2>2 DEF TypeOK, DataOK
    <3>2. asked[i] # -1
      BY <2>1
    <3>3. asked' = asked /\ covered' = covered
      BY <1>3 DEF Insert, Exists
    <3> HIDE DEF i, asked
    <3>4. credited'[i] \in Nat /\ credited'[i] > credited[i]
      BY <2>1, <3>1 DEF i
    <3>5. credited' = [credited EXCEPT ![i] = credited'[i]]
      BY <2>2, <3>1 DEF i
    <3> QED BY <2>1, <3>2, <3>3, <3>4, <3>5 DEF Promise!Credit, i, asked
  <2>3. CASE credited' = credited
    BY <1>1, <1>3, <2>3 DEF Insert
  <2> QED BY <1>3, <2>2, <2>3 DEF Insert
<1>4. ASSUME NEW w \in Workers, NEW throws \in BOOLEAN, Apply(w, throws)
      PROVE  (Promise!Cover(Instr(w)) /\ Instr(w) \in Instructions) \/ UNCHANGED Promise!vars
  <2> DEFINE i == Instr(w)
  <2>1. /\ i \in Instructions /\ Exists(i) /\ expectedAmount[i] \in Nat /\ credited[i] \in Nat
    BY <1>4, AtWork DEF Apply, At, Applying, Recorded
  <2>2. CASE NextStatus(w) = "reconciled"
    <3>1. /\ job[w].step \in Recorded /\ job[w].step \in Applying
      BY <1>4 DEF Apply, At, Recorded, Applying
    <3>2. NextCredited(w) =< credited[i]
      BY <3>1 DEF DecisionIsBacked
    <3>3. NextCredited(w) \in Nat /\ NextCredited(w) > 0 /\ NextCredited(w) >= expectedAmount[i]
      BY <2>2, <3>1, AtWork, Computed DEF NextCredited
    <3>4. credited[i] > 0 /\ credited[i] >= expectedAmount[i]
      BY <2>1, <3>2, <3>3
    <3>5. asked[i] = expectedAmount[i] /\ asked[i] # -1
      BY <2>1
    <3>6. asked' = asked /\ credited' = credited /\ covered' = covered \cup {i}
      BY <1>4, <2>2 DEF Apply, Exists
    <3> HIDE DEF i
    <3> QED BY <2>1, <3>4, <3>5, <3>6 DEF Promise!Cover, i
  <2>3. CASE NextStatus(w) # "reconciled"
    BY <1>1, <1>4, <2>3 DEF Apply
  <2> QED BY <2>2, <2>3
<1>5. ASSUME NEW w \in Workers, Applies(w), ~ Insert(w),
             ~ \E throws \in BOOLEAN : Apply(w, throws)
      PROVE  UNCHANGED Promise!vars
  <2>1. UNCHANGED <<batchOf, expectedAmount, credited, covered>>
    BY <1>5 DEF Applies, Lookup, ReadCredited, PostReceived, UpdateStatus, Notice,
                PostReserved, PostSurplus
  <2> QED BY <1>1, <2>1
<1>6. ASSUME NEW w \in Workers, Starts(w)
      PROVE  UNCHANGED Promise!vars
  BY <1>1, <1>6, StartsTypeOK
<1>7. ASSUME \/ \E d \in Deposits, i \in Instructions : Send(d, i)
             \/ \E S \in SUBSET Wallets : UpdateWallets(S) \/ Restart(S)
             \/ \E b \in Batches : ResolveException(b)
             \/ UNCHANGED vars
      PROVE  UNCHANGED Promise!vars
  <2>1. UNCHANGED <<batchOf, expectedAmount, credited, covered>>
    BY <1>7 DEF Send, UpdateWallets, Restart, ResolveException, vars
  <2> QED BY <1>1, <2>1
<1> QED BY <1>2, <1>3, <1>4, <1>5, <1>6, <1>7 DEF Step, Promise!Next

\* Refinement: Funding, with its overlapping scans, failures and stale reads,
\* implements Reconciliation.
THEOREM Refinement == Spec => KeepsPromise
<1>1. Init => Promise!Init
  BY DEF Init, Promise!Init, Exists
<1>2. TypeOK /\ DecisionIsBacked /\ [Next]_vars => [Promise!Next]_(Promise!vars)
  BY NextPromise, NextCases
<1> QED BY <1>1, <1>2, Typing, Backing, PTL DEF Spec, KeepsPromise, Promise!Spec
==============================================================================
