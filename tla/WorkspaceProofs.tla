--------------------------- MODULE WorkspaceProofs ---------------------------
(***************************************************************************)
(* For any number of calls in flight, projects, writes and failures: the   *)
(* console says "Ready" whenever nothing runs, keeps its types, and shows  *)
(* its own writes once answers have come in order.                         *)
(***************************************************************************)
EXTENDS Workspace, SumProofs

\* A call is a record with the fields of an idle one.
CallFields ==
    /\ DOMAIN call = Calls
    /\ \A c \in Calls : DOMAIN call[c] = DOMAIN Idle

\* While the console is "Syncing", a call is in flight.
BusyForAReason == loading => \E c \in Calls : call[c].awaits # "nothing"

WorkspaceInv == CallFields /\ BusyForAReason

\* A request is a call, and not an idle one.
LEMMA RequestFields ==
    ASSUME NEW what, NEW p, NEW then
    PROVE  DOMAIN Request(what, p, then) = DOMAIN Idle /\ Request(what, p, then).awaits = what
BY DEF Request, Idle

\* A call that starts keeps the fields, and gives a reason.
LEMMA StartReason ==
    ASSUME WorkspaceInv, NEW c \in Calls, NEW what, NEW p, NEW then, what # "nothing",
           call' = [call EXCEPT ![c] = Request(what, p, then)]
    PROVE  WorkspaceInv'
BY RequestFields DEF WorkspaceInv, CallFields, BusyForAReason

\* The API's part changes no call's place.
LEMMA ApiReason ==
    ASSUME WorkspaceInv, NEW c \in Calls,
           Write(c) \/ TakeQuote(c) \/ Compose(c) \/ ReadList(c)
    PROVE  WorkspaceInv'
<1> USE DEF WorkspaceInv, CallFields
<1>1. loading' = loading
  BY DEF Write, TakeQuote, Compose, ReadList, pageVars
<1>2. DOMAIN call' = Calls /\ \A d \in Calls : DOMAIN call'[d] = DOMAIN call[d]
  BY DEF Write, TakeQuote, Compose, ReadList
<1>3. \A d \in Calls : call'[d].awaits = call[d].awaits
  <2>1. \A d \in Calls : "awaits" \in DOMAIN call[d]
    BY DEF Idle
  <2> QED BY <2>1 DEF Write, TakeQuote, Compose, ReadList
<1> QED BY <1>1, <1>2, <1>3 DEF BusyForAReason

\* An answer ends a call or gives it something else to wait for.
LEMMA DoneFields ==
    ASSUME CallFields, NEW c \in Calls, NEW STATE next, DOMAIN next = DOMAIN Idle,
           call' = Done(c, next)
    PROVE  CallFields' /\ call'[c] = next
BY DEF CallFields, Done

\* Every step keeps the fields, and the reason to say "Syncing".
LEMMA NextReason == WorkspaceInv /\ [Next]_vars => WorkspaceInv'
<1> SUFFICES ASSUME WorkspaceInv, [Next]_vars PROVE WorkspaceInv'
  OBVIOUS
<1>1. CASE UNCHANGED <<call, loading>>
  BY <1>1 DEF WorkspaceInv, CallFields, BusyForAReason
<1>2. CASE Logout \/ ClearSelection \/ (\E p \in Projects \cup {None} : Navigate(p))
           \/ (\E p \in Projects : Elsewhere(p)) \/ UNCHANGED vars
  BY <1>1, <1>2 DEF Logout, ClearSelection, Navigate, Elsewhere, pageVars, vars
<1>3. ASSUME NEW c \in Calls, Login(c) \/ Refresh(c)
      PROVE  WorkspaceInv'
  <2>1. call' = [call EXCEPT ![c] = Request("list", None, "refresh")]
    BY <1>3 DEF Login, Refresh, Start
  <2> QED BY <2>1, StartReason
<1>4. ASSUME NEW c \in Calls, NEW p \in Projects, OpenBatch(c, p)
      PROVE  WorkspaceInv'
  BY <1>4, StartReason DEF OpenBatch, Start
<1>5. ASSUME NEW c \in Calls, NEW p \in Projects, NEW then, Act(c, p, then)
      PROVE  WorkspaceInv'
  BY <1>5, StartReason DEF Act, Start
<1>6. ASSUME NEW c \in Calls, Effect(c)
      PROVE  WorkspaceInv'
  <2> DEFINE p == Wanted
  <2> HIDE DEF p
  <2>1. call' = [call EXCEPT ![c] = Request("open", p, "refresh")]
    BY <1>6 DEF Effect, Start, p
  <2> QED BY <2>1, StartReason
<1>7. ASSUME NEW c \in Calls, WriteAnswered(c) \/ OwnAnswered(c)
      PROVE  WorkspaceInv'
  <2>1. CASE WriteAnswered(c)
    <3>1. DOMAIN AfterWrite(c) = DOMAIN Idle /\ AfterWrite(c).awaits # "nothing"
      BY RequestFields DEF AfterWrite
    <3> QED BY <2>1, <3>1, DoneFields DEF WriteAnswered, WorkspaceInv, BusyForAReason
  <2>2. CASE OwnAnswered(c)
    <3>1. DOMAIN Request("list", None, "refresh") = DOMAIN Idle
          /\ Request("list", None, "refresh").awaits # "nothing"
      BY RequestFields
    <3> QED BY <2>2, <3>1, DoneFields DEF OwnAnswered, WorkspaceInv, BusyForAReason
  <2> QED BY <1>7, <2>1, <2>2
<1>8. ASSUME NEW c \in Calls, call' = Done(c, Idle), loading' = FALSE
      PROVE  WorkspaceInv'
  BY <1>8, DoneFields DEF WorkspaceInv, BusyForAReason
<1>9. ASSUME NEW c \in Calls, ListAnswered(c)
      PROVE  WorkspaceInv'
  <2>1. CASE selected # NoDetail
    <3> DEFINE next == Request("detail", selected.id, "refresh")
    <3>1. DOMAIN next = DOMAIN Idle /\ next.awaits # "nothing"
      BY RequestFields
    <3>2. call' = Done(c, next)
      BY <1>9, <2>1 DEF ListAnswered
    <3> HIDE DEF next
    <3> QED BY <3>1, <3>2, DoneFields DEF WorkspaceInv, BusyForAReason
  <2>2. CASE selected = NoDetail
    BY <1>8, <1>9, <2>2 DEF ListAnswered
  <2> QED BY <2>1, <2>2
<1>10. ASSUME NEW c \in Calls, DetailAnswered(c) \/ Fail(c)
       PROVE  WorkspaceInv'
  BY <1>8, <1>10 DEF DetailAnswered, Fail
<1>11. ASSUME NEW c \in Calls, Answer(c)
       PROVE  WorkspaceInv'
  BY <1>7, <1>9, <1>10, <1>11, ApiReason DEF Answer
<1> QED BY <1>2, <1>3, <1>4, <1>5, <1>6, <1>10, <1>11 DEF Next, Clicks

\* Calls that overlap, fail or outlive their session never leave the console
\* "Syncing" when nothing runs.
THEOREM ReadyInTheEnd == Spec => []ReadyWhenQuiet
<1>1. Init => WorkspaceInv
  BY DEF Init, WorkspaceInv, CallFields, BusyForAReason
<1>2. WorkspaceInv => ReadyWhenQuiet
  BY DEF WorkspaceInv, BusyForAReason, ReadyWhenQuiet, Quiet
<1> QED BY <1>1, <1>2, NextReason, PTL DEF Spec

-------------------------------------------------------------------------------
Waits == {"nothing", "write", "own", "open", "list", "detail"}
Phases == {"sent", "half", "answered"}

\* What awaits the details of a project.
Reads == {"own", "open", "detail"}

\* What ends in an answer from the list: an action from its first request on.
Refreshes == {"write", "own", "list"}

Requests ==
    [awaits : Waits, phase : Phases, then : {"own", "answer", "refresh"},
     about : Projects \cup {None}, got : Details \cup {NoDetail},
     list : [Projects -> (0 .. MaxRev) \cup {None}], older : SUBSET Calls]

\* A call's answer is what it awaits.
CallOK(c) ==
    /\ c \notin call[c].older
    /\ call[c].awaits \in {"write"} \cup Reads => call[c].about \in Projects
    /\ call[c].phase = "half" => call[c].awaits \in Reads
    /\ call[c].awaits \in Reads /\ call[c].phase # "sent" =>
          call[c].got \in Details /\ call[c].got.id = call[c].about
    /\ Awaits(c, "list", "answered") => call[c].list \in [Projects -> 0 .. MaxRev]
    /\ Awaits(c, "write", "answered") /\ call[c].then = "answer" => call[c].got \in Details

CallsOK == call \in [Calls -> Requests] /\ \A c \in Calls : CallOK(c)

\* The writes the API has not carried out: with those it has, there are no
\* more than the bound.
Sent == {c \in Calls : Awaits(c, "write", "sent")}
BudgetOK == IsFiniteSet(Sent) /\ Planned =< MaxRev

\* What the API holds and the page shows.
PageOK ==
    /\ rev \in [Projects -> 0 .. MaxRev]
    /\ mine \in [Projects -> 0 .. MaxRev]
    /\ session \in BOOLEAN
    /\ url \in Projects \cup {None}
    /\ data \in [Projects -> (0 .. MaxRev) \cup {None}]
    /\ selected \in Details \cup {NoDetail}
    /\ loading \in BOOLEAN
    /\ failures \in 0 .. MaxFailures
    /\ disturbed \in BOOLEAN

Types == PageOK /\ CallsOK /\ BudgetOK

\* A revision is at most the number of writes to all projects.
LEMMA RevSum ==
    ASSUME NEW f \in [Projects -> Nat]
    PROVE  SumFunction(f) \in Nat /\ \A p \in Projects : f[p] =< SumFunction(f)
<1>1. DOMAIN f = Projects /\ \A p \in Projects : f[p] \in Nat
  OBVIOUS
<1>2. SumFunction(f) = SumFunctionOnSet(f, Projects)
  BY <1>1 DEF SumFunction
<1>3. SumFunctionOnSet(f, Projects) \in Nat
  BY <1>1, FiniteAssumption, SumNat
<1>4. ASSUME NEW p \in Projects
      PROVE  f[p] =< SumFunctionOnSet(f, Projects)
  <2>1. IsFiniteSet(Projects \ {p})
    BY FiniteAssumption, FS_Subset
  <2>2. \A q \in Projects \ {p} : f[q] \in Nat
    BY <1>1
  <2>3. SumFunctionOnSet(f, Projects \ {p}) \in Nat
    BY <2>1, <2>2, SumNat
  <2>4. SumFunctionOnSet(f, Projects) = f[p] + SumFunctionOnSet(f, Projects \ {p})
    <3>1. \A q \in Projects : f[q] \in Int
      BY <1>1
    <3> QED BY <3>1, FiniteAssumption, SumTakeOut
  <2> QED BY <1>1, <2>3, <2>4
<1> QED BY <1>2, <1>3, <1>4

\* A write adds one.
LEMMA RevWrite ==
    ASSUME NEW f \in [Projects -> Nat], NEW p \in Projects
    PROVE  SumFunction([f EXCEPT ![p] = @ + 1]) = SumFunction(f) + 1
<1> DEFINE g == [f EXCEPT ![p] = @ + 1]
<1>1. /\ DOMAIN f = Projects /\ DOMAIN g = Projects
      /\ f[p] \in Int /\ g[p] \in Int /\ g[p] - f[p] = 1
      /\ \A q \in Projects \ {p} : f[q] \in Int /\ g[q] = f[q]
  OBVIOUS
<1> HIDE DEF g
<1>2. SumFunctionOnSet(g, Projects) = SumFunctionOnSet(f, Projects) + (g[p] - f[p])
  BY <1>1, FiniteAssumption, SumChange
<1>3. SumFunctionOnSet(f, Projects) \in Int
  <2>1. \A q \in Projects : f[q] \in Int
    OBVIOUS
  <2> QED BY <2>1, FiniteAssumption, SumInt
<1>4. SumFunction(g) = SumFunction(f) + 1
  BY <1>1, <1>2, <1>3 DEF SumFunction
<1> QED BY <1>4 DEF g

\* The planned writes are those carried out and those sent.
LEMMA PlannedIs == Planned = SumFunction(rev) + Cardinality(Sent)
BY DEF Planned, Sent

\* A request that has just been sent is sound.
LEMMA RequestOK ==
    ASSUME NEW what \in Waits, NEW p \in Projects \cup {None},
           NEW then \in {"own", "answer", "refresh"}
    PROVE  LET r == Request(what, p, then) IN
           /\ r \in Requests /\ r.awaits = what /\ r.phase = "sent" /\ r.about = p
           /\ r.older = {}
BY DEF Request, Idle, Requests, Waits, Phases, NoData

\* A sound call is one after a step that leaves it what it was, or only
\* knows of fewer older calls.
LEMMA CallStays ==
    ASSUME NEW c \in Calls, CallOK(c),
           \/ call'[c] = call[c]
           \/ /\ call[c] \in Requests
              /\ \E s \in SUBSET call[c].older : call'[c] = [call[c] EXCEPT !.older = s]
    PROVE  CallOK(c)'
<1>1. CASE call'[c] = call[c]
  BY <1>1 DEF CallOK, Awaits
<1>2. ASSUME call[c] \in Requests, NEW s \in SUBSET call[c].older,
             call'[c] = [call[c] EXCEPT !.older = s]
      PROVE  CallOK(c)'
  <2>1. /\ call'[c].awaits = call[c].awaits /\ call'[c].phase = call[c].phase
        /\ call'[c].then = call[c].then /\ call'[c].about = call[c].about
        /\ call'[c].got = call[c].got /\ call'[c].list = call[c].list
        /\ call'[c].older = s
    BY <1>2 DEF Requests
  <2> QED BY <2>1 DEF CallOK, Awaits
<1> QED BY <1>1, <1>2

\* A call that starts is sound, and its write, if it is one, was planned for.
LEMMA StartTypes ==
    ASSUME CallsOK, BudgetOK, PageOK, NEW c \in Calls, call[c].awaits = "nothing",
           NEW what \in Waits, NEW p \in Projects \cup {None},
           NEW then \in {"own", "answer", "refresh"},
           what \in {"write"} \cup Reads => p \in Projects,
           what = "write" => Planned < MaxRev,
           call' = [call EXCEPT ![c] = Request(what, p, then)], rev' = rev
    PROVE  CallsOK' /\ BudgetOK'
<1> DEFINE r == Request(what, p, then)
<1>1. /\ r \in Requests /\ r.awaits = what /\ r.phase = "sent" /\ r.about = p
      /\ r.older = {}
  BY RequestOK
<1>2. call' \in [Calls -> Requests] /\ call'[c] = r /\ \A d \in Calls \ {c} : call'[d] = call[d]
  BY <1>1 DEF CallsOK
<1> HIDE DEF r
<1>3. CallOK(c)'
  BY <1>1, <1>2 DEF CallOK, Awaits, Reads
<1>4. \A d \in Calls : CallOK(d)'
  BY <1>2, <1>3, CallStays DEF CallsOK
<1>5. Sent' = IF what = "write" THEN Sent \cup {c} ELSE Sent
  BY <1>1, <1>2 DEF Sent, Awaits
<1>6. c \notin Sent /\ IsFiniteSet(Sent)
  BY DEF Sent, Awaits, BudgetOK
<1>7. BudgetOK'
  <2>1. SumFunction(rev) \in Nat /\ Cardinality(Sent) \in Nat
    BY <1>6, RevSum, FS_CardinalityType DEF PageOK
  <2>2. CASE what = "write"
    <3>1. IsFiniteSet(Sent') /\ Cardinality(Sent') = Cardinality(Sent) + 1
      BY <1>5, <1>6, <2>2, FS_AddElement
    <3>2. Planned' = SumFunction(rev) + Cardinality(Sent')
      BY DEF Planned, Sent
    <3> QED BY <2>1, <2>2, <3>1, <3>2, PlannedIs, BoundsAssumption DEF BudgetOK
  <2>3. CASE what # "write"
    BY <1>5, <1>6, <2>3 DEF BudgetOK, Planned, Sent
  <2> QED BY <2>2, <2>3
<1> QED BY <1>2, <1>4, <1>7 DEF CallsOK

\* An answer, or a failure, leaves the calls sound if the next request is.
LEMMA DoneTypes ==
    ASSUME CallsOK, BudgetOK, PageOK, NEW c \in Calls,
           NEW next \in Requests, next.phase = "sent", next.awaits # "write", next.older = {},
           next.awaits \in Reads => next.about \in Projects,
           call' = Done(c, next), rev' = rev
    PROVE  CallsOK' /\ BudgetOK'
<1>1. /\ call'[c] = next
      /\ \A d \in Calls \ {c} : call'[d] = [call[d] EXCEPT !.older = @ \ {c}]
      /\ DOMAIN call' = Calls /\ call' = [d \in Calls |-> call'[d]]
  BY DEF Done
<1>2. \A d \in Calls : call[d] \in Requests /\ CallOK(d)
  BY DEF CallsOK
<1>3. ASSUME NEW d \in Calls \ {c}
      PROVE  /\ call'[d] \in Requests /\ CallOK(d)'
             /\ call'[d].awaits = call[d].awaits /\ call'[d].phase = call[d].phase
  <2> DEFINE s == call[d].older \ {c}
  <2>1. call'[d] = [call[d] EXCEPT !.older = s] /\ s \in SUBSET call[d].older
    BY <1>1
  <2>2. s \in SUBSET Calls
    BY <1>2 DEF Requests
  <2> HIDE DEF s
  <2>3. /\ call'[d] \in Requests
        /\ call'[d].awaits = call[d].awaits /\ call'[d].phase = call[d].phase
    BY <1>2, <2>1, <2>2 DEF Requests
  <2> QED BY <1>2, <2>1, <2>3, CallStays
<1>4. CallOK(c)'
  BY <1>1 DEF CallOK, Awaits, Reads
<1>5. call' \in [Calls -> Requests]
  BY <1>1, <1>3
<1>6. Sent' = Sent \ {c}
  BY <1>1, <1>3 DEF Sent, Awaits
<1>7. BudgetOK'
  <2>1. SumFunction(rev) \in Nat /\ Cardinality(Sent) \in Nat /\ IsFiniteSet(Sent)
    BY RevSum, FS_CardinalityType DEF PageOK, BudgetOK
  <2>2. IsFiniteSet(Sent') /\ Cardinality(Sent') \in Nat /\ Cardinality(Sent') =< Cardinality(Sent)
    BY <1>6, <2>1, FS_Subset, FS_CardinalityType
  <2>3. Planned' = SumFunction(rev) + Cardinality(Sent')
    BY DEF Planned, Sent
  <2> QED BY <2>1, <2>2, <2>3, PlannedIs, BoundsAssumption DEF BudgetOK
<1> QED BY <1>3, <1>4, <1>5, <1>7 DEF CallsOK

\* What the API's steps do to the call they handle: it stays what it is, but
\* for its phase, its answer and the calls handled before.
Handles(c, phase) ==
    /\ call'[c].awaits = call[c].awaits /\ call'[c].about = call[c].about
    /\ call'[c].then = call[c].then /\ call'[c].phase = phase
    /\ \A d \in Calls \ {c} : call'[d] = call[d]
    /\ DOMAIN call' = Calls /\ call' = [d \in Calls |-> call'[d]]
    /\ DOMAIN call'[c] = DOMAIN call[c] /\ call'[c] = [x \in DOMAIN call'[c] |-> call'[c][x]]

\* Details that are completed.
LEMMA DetailsCompleted ==
    ASSUME NEW s \in Details, NEW n
    PROVE  [s EXCEPT !.rev = n, !.funding = TRUE] =
              [id |-> s.id, rev |-> n, quote |-> s.quote, funding |-> TRUE]
<1> DEFINE r == [s EXCEPT !.rev = n, !.funding = TRUE]
           t == [id |-> s.id, rev |-> n, quote |-> s.quote, funding |-> TRUE]
<1>1. DOMAIN s = {"id", "rev", "quote", "funding"}
  BY DEF Details
<1>2. /\ DOMAIN r = {"id", "rev", "quote", "funding"} /\ r = [x \in DOMAIN r |-> r[x]]
      /\ r.id = s.id /\ r.rev = n /\ r.quote = s.quote /\ r.funding = TRUE
  BY <1>1
<1>3. /\ DOMAIN t = {"id", "rev", "quote", "funding"} /\ t = [x \in DOMAIN t |-> t[x]]
      /\ t.id = s.id /\ t.rev = n /\ t.quote = s.quote /\ t.funding = TRUE
  OBVIOUS
<1> HIDE DEF r, t
<1>4. \A x \in {"id", "rev", "quote", "funding"} : r[x] = t[x]
  BY <1>2, <1>3
<1>5. r = t
  BY <1>2, <1>3, <1>4
<1> QED BY <1>5 DEF r, t

\* The API answers a write.
LEMMA WriteIs ==
    ASSUME CallsOK, NEW c \in Calls, Write(c)
    PROVE  /\ Handles(c, "answered") /\ call[c].awaits = "write" /\ call[c].phase = "sent"
           /\ call[c].about \in Projects
           /\ call'[c].older = Handled /\ call'[c].list = call[c].list
           /\ call'[c].got = IF call[c].then = "answer"
                             THEN [id |-> call[c].about, rev |-> rev[call[c].about] + 1,
                                   quote |-> rev[call[c].about] + 1, funding |-> FALSE]
                             ELSE NoDetail
<1>1. call \in [Calls -> Requests] /\ call[c] \in Requests /\ CallOK(c)
  BY DEF CallsOK
<1>2. call[c].awaits = "write" /\ call[c].phase = "sent"
  BY DEF Write, Awaits
<1>3. call[c].about \in Projects
  BY <1>1, <1>2 DEF CallOK
<1> DEFINE got == IF call[c].then = "answer"
                  THEN [id |-> call[c].about, rev |-> rev[call[c].about] + 1,
                        quote |-> rev[call[c].about] + 1, funding |-> FALSE]
                  ELSE NoDetail
<1>4. call' = [call EXCEPT ![c].phase = "answered", ![c].got = got, ![c].older = Handled]
  BY DEF Write
<1> HIDE DEF got
<1>5. Handles(c, "answered") /\ call'[c].older = Handled /\ call'[c].list = call[c].list
      /\ call'[c].got = got
  BY <1>1, <1>4 DEF Handles, Requests
<1> QED BY <1>2, <1>3, <1>5 DEF got

\* The API finds the quote.
LEMMA TakeQuoteIs ==
    ASSUME CallsOK, NEW c \in Calls, TakeQuote(c)
    PROVE  /\ Handles(c, "half") /\ call[c].awaits \in Reads /\ call[c].phase = "sent"
           /\ call[c].about \in Projects
           /\ call'[c].older = Handled /\ call'[c].list = call[c].list
           /\ call'[c].got = [id |-> call[c].about, rev |-> 0,
                              quote |-> rev[call[c].about], funding |-> FALSE]
<1>1. call \in [Calls -> Requests] /\ call[c] \in Requests /\ CallOK(c)
  BY DEF CallsOK
<1>2. call[c].awaits \in Reads /\ call[c].phase = "sent"
  BY DEF TakeQuote, Awaits, Reads
<1>3. call[c].about \in Projects
  BY <1>1, <1>2 DEF CallOK
<1> DEFINE got == [id |-> call[c].about, rev |-> 0, quote |-> rev[call[c].about], funding |-> FALSE]
<1>4. call' = [call EXCEPT ![c].phase = "half", ![c].got = got, ![c].older = Handled]
  BY DEF TakeQuote
<1> HIDE DEF got
<1>5. Handles(c, "half") /\ call'[c].older = Handled /\ call'[c].list = call[c].list
      /\ call'[c].got = got
  BY <1>1, <1>4 DEF Handles, Requests
<1> QED BY <1>2, <1>3, <1>5 DEF got

\* The API completes the details.
LEMMA ComposeIs ==
    ASSUME CallsOK, NEW c \in Calls, Compose(c)
    PROVE  /\ Handles(c, "answered") /\ call[c].awaits \in Reads /\ call[c].phase = "half"
           /\ call[c].about \in Projects
           /\ call'[c].older = call[c].older /\ call'[c].list = call[c].list
           /\ call[c].got \in Details
           /\ call'[c].got = [id |-> call[c].about, rev |-> rev[call[c].about],
                              quote |-> call[c].got.quote, funding |-> TRUE]
<1>1. call \in [Calls -> Requests] /\ call[c] \in Requests /\ CallOK(c)
  BY DEF CallsOK
<1>2. call[c].awaits \in Reads /\ call[c].phase = "half"
  BY <1>1 DEF Compose, CallOK
<1>3. call[c].about \in Projects /\ call[c].got \in Details /\ call[c].got.id = call[c].about
  BY <1>1, <1>2 DEF CallOK
<1> DEFINE got == [call[c].got EXCEPT !.rev = rev[call[c].about], !.funding = TRUE]
<1>4. got = [id |-> call[c].about, rev |-> rev[call[c].about],
             quote |-> call[c].got.quote, funding |-> TRUE]
  BY <1>3, DetailsCompleted
<1>5. call' = [call EXCEPT ![c].phase = "answered", ![c].got = got]
  BY <1>1 DEF Compose, Requests
<1> HIDE DEF got
<1>6. Handles(c, "answered") /\ call'[c].older = call[c].older /\ call'[c].list = call[c].list
      /\ call'[c].got = got
  BY <1>1, <1>5 DEF Handles, Requests
<1> QED BY <1>2, <1>3, <1>4, <1>6

\* The API answers with the list.
LEMMA ReadListIs ==
    ASSUME CallsOK, NEW c \in Calls, ReadList(c)
    PROVE  /\ Handles(c, "answered") /\ call[c].awaits = "list" /\ call[c].phase = "sent"
           /\ call'[c].older = Handled /\ call'[c].list = rev
           /\ call'[c].got = call[c].got
<1>1. call \in [Calls -> Requests] /\ call[c] \in Requests
  BY DEF CallsOK
<1>2. call[c].awaits = "list" /\ call[c].phase = "sent"
  BY DEF ReadList, Awaits
<1>3. call' = [call EXCEPT ![c].phase = "answered", ![c].list = rev, ![c].older = Handled]
  BY DEF ReadList
<1>4. Handles(c, "answered") /\ call'[c].older = Handled /\ call'[c].list = rev
      /\ call'[c].got = call[c].got
  BY <1>1, <1>3 DEF Handles, Requests
<1> QED BY <1>2, <1>4

\* A call that the API handles is sound if its answer is.
LEMMA HandledTypes ==
    ASSUME CallsOK, NEW c \in Calls, NEW phase \in Phases, Handles(c, phase),
           call'[c].got \in Details \cup {NoDetail},
           call'[c].list \in [Projects -> (0 .. MaxRev) \cup {None}],
           call'[c].older \in SUBSET (Calls \ {c}),
           phase # "sent",
           phase = "half" => call[c].awaits \in Reads,
           call[c].awaits \in Reads =>
              call'[c].got \in Details /\ call'[c].got.id = call[c].about,
           call[c].awaits = "list" => call'[c].list \in [Projects -> 0 .. MaxRev],
           call[c].awaits = "write" /\ call[c].then = "answer" => call'[c].got \in Details
    PROVE  CallsOK'
<1>1. \A d \in Calls : call[d] \in Requests /\ CallOK(d)
  BY DEF CallsOK
<1>2. call'[c] \in Requests
  <2>1. DOMAIN call'[c] = {"awaits", "phase", "then", "about", "got", "list", "older"}
    BY <1>1 DEF Handles, Requests
  <2>2. call'[c].awaits \in Waits /\ call'[c].then \in {"own", "answer", "refresh"}
        /\ call'[c].about \in Projects \cup {None} /\ call'[c].phase \in Phases
    BY <1>1 DEF Handles, Requests
  <2> QED BY <2>1, <2>2 DEF Handles, Requests
<1>3. CallOK(c)'
  BY <1>1 DEF CallOK, Handles, Awaits
<1>4. \A d \in Calls \ {c} : CallOK(d)' /\ call'[d] \in Requests
  BY <1>1, CallStays DEF Handles
<1>5. call' \in [Calls -> Requests]
  BY <1>2, <1>4 DEF Handles
<1> QED BY <1>3, <1>4, <1>5 DEF CallsOK

\* The API's steps keep the calls sound and the writes within the bound.
LEMMA ApiTypes ==
    ASSUME Types, NEW c \in Calls, Write(c) \/ TakeQuote(c) \/ Compose(c) \/ ReadList(c)
    PROVE  /\ CallsOK' /\ BudgetOK'
           /\ rev' \in [Projects -> 0 .. MaxRev] /\ mine' \in [Projects -> 0 .. MaxRev]
<1> USE DEF apiVars
<1>1. /\ CallsOK /\ rev \in [Projects -> 0 .. MaxRev] /\ mine \in [Projects -> 0 .. MaxRev]
      /\ call[c] \in Requests /\ CallOK(c)
  BY DEF Types, PageOK, CallsOK
<1>2. /\ call[c].got \in Details \cup {NoDetail}
      /\ call[c].list \in [Projects -> (0 .. MaxRev) \cup {None}]
      /\ call[c].older \in SUBSET (Calls \ {c})
  BY <1>1 DEF Requests, CallOK
<1>3. call[c].phase = "sent" => Handled \in SUBSET (Calls \ {c})
  BY DEF Handled
<1>4. 0 \in 0 .. MaxRev
  BY BoundsAssumption
<1>5. IsFiniteSet(Sent) /\ Planned =< MaxRev /\ SumFunction(rev) \in Nat /\ Cardinality(Sent) \in Nat
  BY <1>1, RevSum, FS_CardinalityType DEF Types, BudgetOK
<1>6. ASSUME rev' = rev, NEW phase, Handles(c, phase), ~ Awaits(c, "write", "sent"), phase # "sent"
      PROVE  BudgetOK'
  <2>1. Sent' = Sent
    BY <1>6 DEF Sent, Handles, Awaits
  <2> QED BY <1>5, <1>6, <2>1 DEF BudgetOK, Planned, Sent
<1>7. CASE Write(c)
  <2> DEFINE p == call[c].about
             new == rev[p] + 1
  <2>1. /\ Handles(c, "answered") /\ call[c].awaits = "write" /\ call[c].phase = "sent"
        /\ p \in Projects /\ call'[c].older = Handled /\ call'[c].list = call[c].list
        /\ call'[c].got = IF call[c].then = "answer"
                          THEN [id |-> p, rev |-> new, quote |-> new, funding |-> FALSE]
                          ELSE NoDetail
    BY <1>1, <1>7, WriteIs
  <2>2. /\ rev' = [rev EXCEPT ![p] = @ + 1] /\ mine' = [mine EXCEPT ![p] = new]
        /\ rev \in [Projects -> Nat] /\ rev' \in [Projects -> Nat]
    BY <1>1, <2>1, <1>7 DEF Write
  <2>3. SumFunction(rev') = SumFunction(rev) + 1
    BY <2>1, <2>2, RevWrite
  <2>4. c \in Sent /\ Sent' = Sent \ {c}
    BY <2>1 DEF Sent, Handles, Awaits
  <2>5. IsFiniteSet(Sent') /\ Cardinality(Sent') = Cardinality(Sent) - 1
    BY <1>5, <2>4, FS_RemoveElement
  <2>6. Planned' = SumFunction(rev') + Cardinality(Sent')
    BY DEF Planned, Sent
  <2>7. Planned' = Planned /\ Cardinality(Sent') \in Nat
    BY <1>5, <2>3, <2>5, <2>6, PlannedIs, FS_CardinalityType
  <2>8. BudgetOK' /\ SumFunction(rev') =< MaxRev
    <3>1. Planned =< MaxRev /\ Planned \in Nat
      BY <1>5, PlannedIs
    <3> HIDE DEF p, new
    <3> QED BY <1>5, <2>3, <2>5, <2>6, <2>7, <3>1, BoundsAssumption DEF BudgetOK
  <2>9. rev' \in [Projects -> 0 .. MaxRev]
    <3>1. \A q \in Projects : rev'[q] =< SumFunction(rev') /\ rev'[q] \in Nat
      BY <2>2, RevSum
    <3>2. SumFunction(rev') \in Nat
      BY <2>2, RevSum
    <3> HIDE DEF p, new
    <3>3. \A q \in Projects : rev'[q] \in 0 .. MaxRev
      BY <2>8, <3>1, <3>2, BoundsAssumption
    <3> QED BY <2>2, <3>3
  <2>10. new = rev'[p] /\ new \in 0 .. MaxRev
    BY <2>1, <2>2, <2>9
  <2>11. call'[c].got \in Details \cup {NoDetail}
         /\ (call[c].then = "answer" => call'[c].got \in Details)
    <3> HIDE DEF p, new
    <3> QED BY <2>1, <2>10 DEF Details
  <2>12. CallsOK'
    BY <1>1, <1>2, <1>3, <2>1, <2>11, HandledTypes DEF Phases, Reads
  <2>13. mine' \in [Projects -> 0 .. MaxRev]
    BY <1>1, <2>2, <2>10
  <2> QED BY <2>8, <2>9, <2>12, <2>13
<1>8. CASE TakeQuote(c)
  <2>1. /\ Handles(c, "half") /\ call[c].awaits \in Reads /\ call[c].phase = "sent"
        /\ call[c].about \in Projects /\ call'[c].older = Handled /\ call'[c].list = call[c].list
        /\ call'[c].got = [id |-> call[c].about, rev |-> 0,
                           quote |-> rev[call[c].about], funding |-> FALSE]
    BY <1>1, <1>8, TakeQuoteIs
  <2>2. call'[c].got \in Details /\ call'[c].got.id = call[c].about
    BY <1>1, <1>4, <2>1 DEF Details
  <2>3. CallsOK'
    BY <1>1, <1>2, <1>3, <2>1, <2>2, HandledTypes DEF Phases, Reads
  <2>4. rev' = rev /\ mine' = mine /\ ~ Awaits(c, "write", "sent")
    BY <1>8, <2>1 DEF TakeQuote, Awaits, Reads
  <2> QED BY <1>1, <1>6, <2>1, <2>3, <2>4
<1>9. CASE Compose(c)
  <2>1. /\ Handles(c, "answered") /\ call[c].awaits \in Reads /\ call[c].phase = "half"
        /\ call[c].about \in Projects /\ call'[c].older = call[c].older
        /\ call'[c].list = call[c].list /\ call[c].got \in Details
        /\ call'[c].got = [id |-> call[c].about, rev |-> rev[call[c].about],
                           quote |-> call[c].got.quote, funding |-> TRUE]
    BY <1>1, <1>9, ComposeIs
  <2>2. call'[c].got \in Details /\ call'[c].got.id = call[c].about
    <3>1. call[c].got.quote \in 0 .. MaxRev /\ rev[call[c].about] \in 0 .. MaxRev
      BY <1>1, <2>1 DEF Details
    <3> QED BY <2>1, <3>1 DEF Details
  <2>3. CallsOK'
    BY <1>1, <1>2, <2>1, <2>2, HandledTypes DEF Phases, Reads
  <2>4. rev' = rev /\ mine' = mine /\ ~ Awaits(c, "write", "sent")
    BY <1>9, <2>1 DEF Compose, Awaits, Reads
  <2> QED BY <1>1, <1>6, <2>1, <2>3, <2>4
<1>10. CASE ReadList(c)
  <2>1. /\ Handles(c, "answered") /\ call[c].awaits = "list" /\ call[c].phase = "sent"
        /\ call'[c].older = Handled /\ call'[c].list = rev /\ call'[c].got = call[c].got
    BY <1>1, <1>10, ReadListIs
  <2>2. CallsOK'
    BY <1>1, <1>2, <1>3, <2>1, HandledTypes DEF Phases, Reads
  <2>3. rev' = rev /\ mine' = mine /\ ~ Awaits(c, "write", "sent")
    BY <1>10, <2>1 DEF ReadList, Awaits
  <2> QED BY <1>1, <1>6, <2>1, <2>2, <2>3
<1> QED BY <1>7, <1>8, <1>9, <1>10

\* What a step that starts a call has in common with the others: the console
\* and the API keep what they hold.
Begins(c, what, p, then) ==
    /\ call[c].awaits = "nothing"
    /\ call' = [call EXCEPT ![c] = Request(what, p, then)]
    /\ what \in {"write"} \cup Reads => p \in Projects
    /\ what = "write" => Planned < MaxRev
    /\ UNCHANGED <<rev, mine, url, data, selected, failures>>
    /\ loading' = TRUE /\ session' = TRUE
    /\ \/ disturbed' = disturbed /\ session' = session
       \/ what = "list" /\ disturbed' = IF Quiet THEN FALSE ELSE disturbed

\* A step that starts a call.
Starts(c) ==
    \/ Login(c) \/ Refresh(c) \/ Effect(c)
    \/ \E p \in Projects :
          OpenBatch(c, p) \/ \E then \in {"own", "answer", "refresh"} : Act(c, p, then)

\* The actions that start a call are of this kind.
LEMMA StartBegins ==
    ASSUME PageOK, NEW c \in Calls, Starts(c)
    PROVE  \E what \in Waits \ {"nothing"}, p \in Projects \cup {None},
              then \in {"own", "answer", "refresh"} : Begins(c, what, p, then)
<1> USE DEF apiVars, pageVars, Waits
<1>1. CASE Login(c) \/ Refresh(c)
  <2>1. Begins(c, "list", None, "refresh")
    BY <1>1 DEF Login, Refresh, Start, Begins, Reads, PageOK
  <2> QED BY <2>1
<1>2. ASSUME NEW p \in Projects, OpenBatch(c, p)
      PROVE  Begins(c, "open", p, "refresh")
  BY <1>2 DEF OpenBatch, Start, Begins, PageOK
<1>3. ASSUME NEW p \in Projects, NEW then \in {"own", "answer", "refresh"}, Act(c, p, then)
      PROVE  Begins(c, "write", p, then)
  BY <1>3 DEF Act, Start, Begins, PageOK
<1>4. CASE Effect(c)
  <2>1. PICK p : p = Wanted
    OBVIOUS
  <2>2. p \in Projects
    BY <1>4, <2>1, FirstAssumption DEF Effect, Wanted, PageOK
  <2>3. Begins(c, "open", p, "refresh")
    BY <1>4, <2>1, <2>2 DEF Effect, Start, Begins, PageOK
  <2> QED BY <2>2, <2>3
<1> QED BY <1>1, <1>2, <1>3, <1>4 DEF Starts

\* The actions on an answer.
Lands(c) == WriteAnswered(c) \/ OwnAnswered(c) \/ ListAnswered(c) \/ DetailAnswered(c)

\* The request that a call makes when its answer is there.
Follows(c) ==
    CASE call[c].awaits = "write" -> AfterWrite(c)
      [] call[c].awaits = "own" -> Request("list", None, "refresh")
      [] call[c].awaits = "list" /\ selected # NoDetail -> Request("detail", selected.id, "refresh")
      [] OTHER -> Idle

\* An idle call is sound.
LEMMA IdleOK ==
    Idle \in Requests /\ Idle.awaits = "nothing" /\ Idle.phase = "sent" /\ Idle.older = {}
BY DEF Idle, Requests, Waits, Phases, NoData

\* It is a request for the details of a project, or for the list, or none.
LEMMA FollowsOK ==
    ASSUME PageOK, CallsOK, NEW c \in Calls
    PROVE  /\ Follows(c) \in Requests
           /\ Follows(c).phase = "sent" /\ Follows(c).older = {}
           /\ Follows(c).awaits \in Reads => Follows(c).about \in Projects
           /\ call[c].awaits = "write" => Follows(c).awaits \in {"own", "list"}
           /\ call[c].awaits = "own" => Follows(c).awaits = "list"
           /\ call[c].awaits = "list" => Follows(c).awaits = IF selected = NoDetail
                                                             THEN "nothing" ELSE "detail"
           /\ call[c].awaits \in {"open", "detail", "nothing"} => Follows(c).awaits = "nothing"
           /\ Follows(c).awaits # "write"
<1>1. call[c] \in Requests /\ CallOK(c)
  BY DEF CallsOK
<1>2. ASSUME NEW what \in Waits, NEW p \in Projects \cup {None}
      PROVE  LET r == Request(what, p, "refresh") IN
             r \in Requests /\ r.awaits = what /\ r.phase = "sent" /\ r.about = p /\ r.older = {}
  BY RequestOK
<1>3. /\ Request("list", None, "refresh") \in Requests
      /\ Request("list", None, "refresh").awaits = "list"
      /\ Request("list", None, "refresh").phase = "sent"
      /\ Request("list", None, "refresh").older = {}
  BY <1>2 DEF Waits
<1>4. CASE call[c].awaits = "write"
  <2>1. Follows(c) = AfterWrite(c)
    BY <1>4 DEF Follows
  <2>2. CASE call[c].then = "own"
    <3>1. PICK p \in Projects : p = call[c].about
      BY <1>1, <1>4 DEF CallOK
    <3>2. Follows(c) = Request("own", p, "refresh")
      BY <2>1, <2>2, <3>1 DEF AfterWrite
    <3>3. LET r == Request("own", p, "refresh") IN
          r \in Requests /\ r.awaits = "own" /\ r.phase = "sent" /\ r.about = p /\ r.older = {}
      BY <1>2 DEF Waits
    <3> QED BY <1>4, <3>2, <3>3
  <2>3. CASE call[c].then # "own"
    <3>1. Follows(c) = Request("list", None, "refresh")
      BY <2>1, <2>3 DEF AfterWrite
    <3> QED BY <1>3, <1>4, <3>1 DEF Reads
  <2> QED BY <2>2, <2>3
<1>5. CASE call[c].awaits = "own"
  <2>1. Follows(c) = Request("list", None, "refresh")
    BY <1>5 DEF Follows
  <2> QED BY <1>3, <1>5, <2>1 DEF Reads
<1>6. CASE call[c].awaits = "list" /\ selected # NoDetail
  <2>1. PICK p \in Projects : p = selected.id
    BY <1>6 DEF PageOK, Details
  <2>2. Follows(c) = Request("detail", p, "refresh")
    BY <1>6, <2>1 DEF Follows
  <2>3. LET r == Request("detail", p, "refresh") IN
        r \in Requests /\ r.awaits = "detail" /\ r.phase = "sent" /\ r.about = p /\ r.older = {}
    BY <1>2 DEF Waits
  <2> QED BY <1>6, <2>2, <2>3
<1>7. CASE /\ call[c].awaits \notin {"write", "own"}
           /\ call[c].awaits = "list" => selected = NoDetail
  <2>1. Follows(c) = Idle
    BY <1>7 DEF Follows
  <2> QED BY <1>7, <2>1, IdleOK DEF Reads
<1> QED BY <1>4, <1>5, <1>6, <1>7

\* What the actions on an answer have in common.
LEMMA LandsIs ==
    ASSUME Types, NEW c \in Calls, Lands(c)
    PROVE  /\ call' = Done(c, Follows(c))
           /\ UNCHANGED <<rev, mine, session, url, failures>>
           /\ disturbed' = (disturbed \/ Overtakes(c))
           /\ loading' \in BOOLEAN
           /\ call[c].phase = "answered" /\ call[c].awaits \in {"write", "own", "list", "open", "detail"}
           /\ data' = IF call[c].awaits = "list" THEN call[c].list ELSE data
           /\ selected' = IF \/ call[c].awaits \in {"own", "open", "detail"}
                             \/ call[c].awaits = "write" /\ call[c].then = "answer"
                          THEN call[c].got ELSE selected
<1> USE DEF apiVars, Awaits
<1>1. loading \in BOOLEAN
  BY DEF Types, PageOK
<1>2. CASE WriteAnswered(c)
  BY <1>2 DEF WriteAnswered, Follows
<1>3. CASE OwnAnswered(c)
  BY <1>3 DEF OwnAnswered, Follows
<1>4. CASE ListAnswered(c)
  BY <1>1, <1>4 DEF ListAnswered, Follows
<1>5. CASE DetailAnswered(c)
  BY <1>5 DEF DetailAnswered, Follows
<1> QED BY <1>2, <1>3, <1>4, <1>5 DEF Lands

\* The steps of Next, sorted for the proofs.
LEMMA NextSorted ==
    ASSUME [Next]_vars
    PROVE  \/ UNCHANGED call /\ \/ Logout \/ ClearSelection \/ UNCHANGED vars
                                \/ \E p \in Projects \cup {None} : Navigate(p)
                                \/ \E p \in Projects : Elsewhere(p)
           \/ \E c \in Calls : \/ Starts(c) \/ Lands(c) \/ Fail(c)
                               \/ Write(c) \/ TakeQuote(c) \/ Compose(c) \/ ReadList(c)
<1>1. Logout \/ ClearSelection \/ UNCHANGED vars => UNCHANGED call
  BY DEF Logout, ClearSelection, vars
<1>2. (\E p \in Projects \cup {None} : Navigate(p)) \/ (\E p \in Projects : Elsewhere(p))
         => UNCHANGED call
  BY DEF Navigate, Elsewhere
<1> QED BY <1>1, <1>2 DEF Next, Clicks, Answer, Starts, Lands

\* Every step keeps the types and the bound on writes.
LEMMA NextTypes == Types /\ [Next]_vars => Types'
<1> SUFFICES ASSUME Types, [Next]_vars PROVE Types'
  OBVIOUS
<1> USE DEF apiVars, pageVars
<1>1. PageOK /\ CallsOK /\ BudgetOK
  BY DEF Types
<1>2. CASE /\ UNCHANGED call
           /\ \/ Logout \/ ClearSelection \/ UNCHANGED vars
              \/ \E p \in Projects \cup {None} : Navigate(p)
  <2>1. CallsOK' /\ BudgetOK'
    BY <1>1, <1>2 DEF CallsOK, CallOK, BudgetOK, Sent, Planned, Awaits, Logout, ClearSelection,
                      Navigate, vars
  <2>2. NoData \in [Projects -> (0 .. MaxRev) \cup {None}]
    BY DEF NoData
  <2>3. PageOK'
    BY <1>1, <1>2, <2>2 DEF PageOK, Logout, ClearSelection, Navigate, vars
  <2> QED BY <2>1, <2>3 DEF Types
<1>3. ASSUME UNCHANGED call, NEW p \in Projects, Elsewhere(p)
      PROVE  Types'
  <2>1. /\ rev' = [rev EXCEPT ![p] = @ + 1] /\ Planned < MaxRev
        /\ rev \in [Projects -> Nat] /\ rev' \in [Projects -> Nat]
    BY <1>1, <1>3 DEF Elsewhere, PageOK
  <2>2. /\ SumFunction(rev') = SumFunction(rev) + 1
        /\ SumFunction(rev) \in Nat /\ SumFunction(rev') \in Nat
        /\ \A q \in Projects : rev'[q] =< SumFunction(rev') /\ rev'[q] \in Nat
    BY <2>1, RevWrite, RevSum
  <2>3. Sent' = Sent /\ IsFiniteSet(Sent) /\ Cardinality(Sent) \in Nat
    BY <1>1, <1>3, FS_CardinalityType DEF Sent, Awaits, BudgetOK
  <2>4. Planned' = SumFunction(rev') + Cardinality(Sent')
    BY DEF Planned, Sent
  <2>5. Planned' =< MaxRev
    BY <2>1, <2>2, <2>3, <2>4, PlannedIs, BoundsAssumption
  <2>6. \A q \in Projects : rev'[q] \in 0 .. MaxRev
    BY <2>2, <2>3, <2>4, <2>5, BoundsAssumption
  <2>7. rev' \in [Projects -> 0 .. MaxRev]
    BY <2>1, <2>6
  <2>8. PageOK'
    BY <1>1, <1>3, <2>7 DEF PageOK, Elsewhere
  <2>9. CallsOK' /\ BudgetOK'
    BY <1>1, <1>3, <2>3, <2>5 DEF CallsOK, CallOK, Awaits, BudgetOK
  <2> QED BY <2>8, <2>9 DEF Types
<1>4. ASSUME NEW c \in Calls, Starts(c)
      PROVE  Types'
  <2>1. PICK what \in Waits \ {"nothing"}, p \in Projects \cup {None},
             then \in {"own", "answer", "refresh"} : Begins(c, what, p, then)
    BY <1>1, <1>4, StartBegins
  <2>2. CallsOK' /\ BudgetOK'
    BY <1>1, <2>1, StartTypes DEF Begins
  <2>3. PageOK'
    BY <1>1, <2>1 DEF PageOK, Begins
  <2> QED BY <2>2, <2>3 DEF Types
<1>5. ASSUME NEW c \in Calls, Lands(c)
      PROVE  Types'
  <2>1. /\ call' = Done(c, Follows(c))
        /\ UNCHANGED <<rev, mine, session, url, failures>>
        /\ disturbed' = (disturbed \/ Overtakes(c))
        /\ loading' \in BOOLEAN
        /\ call[c].phase = "answered" /\ call[c].awaits \in {"write", "own", "list", "open", "detail"}
        /\ data' = IF call[c].awaits = "list" THEN call[c].list ELSE data
        /\ selected' = IF \/ call[c].awaits \in {"own", "open", "detail"}
                          \/ call[c].awaits = "write" /\ call[c].then = "answer"
                       THEN call[c].got ELSE selected
    BY <1>5, LandsIs
  <2>2. CallsOK' /\ BudgetOK'
    BY <1>1, <2>1, FollowsOK, DoneTypes
  <2>3. call[c].got \in Details \cup {NoDetail}
        /\ call[c].list \in [Projects -> (0 .. MaxRev) \cup {None}]
    BY <1>1 DEF CallsOK, Requests
  <2>4. disturbed' \in BOOLEAN
    BY <2>1
  <2>5. PageOK'
    BY <1>1, <2>1, <2>3, <2>4 DEF PageOK
  <2> QED BY <2>2, <2>5 DEF Types
<1>6. ASSUME NEW c \in Calls, Fail(c)
      PROVE  Types'
  <2>1. call' = Done(c, Idle) /\ rev' = rev
    BY <1>6 DEF Fail
  <2>2. CallsOK' /\ BudgetOK'
    <3>1. Idle.awaits \notin Reads
      BY IdleOK DEF Reads
    <3> QED BY <1>1, <2>1, <3>1, IdleOK, DoneTypes
  <2>3. failures' \in 0 .. MaxFailures
    BY <1>1, <1>6, BoundsAssumption DEF Fail, PageOK
  <2>4. PageOK'
    BY <1>1, <1>6, <2>3 DEF PageOK, Fail
  <2> QED BY <2>2, <2>4 DEF Types
<1>7. ASSUME NEW c \in Calls, Write(c) \/ TakeQuote(c) \/ Compose(c) \/ ReadList(c)
      PROVE  Types'
  <2>1. /\ CallsOK' /\ BudgetOK'
        /\ rev' \in [Projects -> 0 .. MaxRev] /\ mine' \in [Projects -> 0 .. MaxRev]
    BY <1>7, ApiTypes
  <2>2. UNCHANGED <<session, url, data, selected, loading, failures, disturbed>>
    BY <1>7 DEF Write, TakeQuote, Compose, ReadList
  <2> QED BY <1>1, <2>1, <2>2 DEF PageOK, Types
<1> QED BY <1>2, <1>3, <1>4, <1>5, <1>6, <1>7, NextSorted

\* At first nothing is written, shown or asked for.
LEMMA InitTypes == Init => Types
<1> SUFFICES ASSUME Init PROVE Types
  OBVIOUS
<1>1. PageOK
  <2>1. 0 \in 0 .. MaxRev /\ 0 \in 0 .. MaxFailures
    BY BoundsAssumption
  <2>2. rev = [p \in Projects |-> 0] /\ mine = [p \in Projects |-> 0] /\ data = [p \in Projects |-> None]
    BY DEF Init, NoData
  <2>3. /\ rev \in [Projects -> 0 .. MaxRev] /\ mine \in [Projects -> 0 .. MaxRev]
        /\ data \in [Projects -> (0 .. MaxRev) \cup {None}]
    BY <2>1, <2>2
  <2> QED BY <2>1, <2>3 DEF Init, PageOK
<1>2. call \in [Calls -> Requests] /\ \A c \in Calls : call[c] = Idle
  BY IdleOK DEF Init
<1>3. CallsOK
  BY <1>2, IdleOK DEF CallsOK, CallOK, Awaits, Reads
<1>4. Sent = {}
  BY <1>2, IdleOK DEF Sent, Awaits
<1>5. SumFunction(rev) = 0
  <2>1. DOMAIN rev = Projects /\ \A p \in Projects : rev[p] = 0
    BY DEF Init
  <2> QED BY <2>1, FiniteAssumption, SumOfZeros DEF SumFunction
<1>6. BudgetOK
  BY <1>4, <1>5, FS_EmptySet, BoundsAssumption, PlannedIs DEF BudgetOK
<1> QED BY <1>1, <1>3, <1>6 DEF Types

\* The types follow.
LEMMA TypesImply == Types => TypeOK
<1> SUFFICES ASSUME Types PROVE TypeOK
  OBVIOUS
<1>1. \A c \in Calls :
        /\ call[c].awaits \in {"nothing", "write", "own", "open", "list", "detail"}
        /\ call[c].phase \in {"sent", "half", "answered"}
        /\ call[c].got \in Details \cup {NoDetail}
        /\ call[c].list \in [Projects -> (0 .. MaxRev) \cup {None}]
        /\ call[c].older \subseteq Calls \ {c}
        /\ call[c].awaits \in {"write", "own", "open", "detail"} => call[c].about \in Projects
  BY DEF Types, CallsOK, CallOK, Requests, Waits, Phases, Reads
<1> QED BY <1>1 DEF Types, PageOK, TypeOK

\* Typing: whichever answers come, late or never, the console puts together
\* details of one project each, of revisions that were, and a call that is
\* answered about a project knows which one.
THEOREM Typing == Spec => []TypeOK
BY InitTypes, NextTypes, TypesImply, PTL DEF Spec

-------------------------------------------------------------------------------
\* A write to the project, answered by the API, is there that the call is
\* older than: if the write's answer lands first, it overtakes the call's.
Overwritten(c, p) ==
    \E d \in Calls : Awaits(d, "write", "answered") /\ call[d].about = p /\ c \in call[d].older

\* An answer that is under way knows of this console's writes, but for
\* those that were carried out after it.
ListFresh(c) ==
    Awaits(c, "list", "answered") =>
        \A p \in Projects : call[c].list[p] >= mine[p] \/ Overwritten(c, p)
DetailFresh(c) ==
    call[c].awaits \in Reads /\ call[c].phase # "sent" =>
        \/ Overwritten(c, call[c].about)
        \/ /\ call[c].got.quote >= mine[call[c].about]
           /\ call[c].phase = "answered" =>
                 call[c].got.rev >= mine[call[c].about] /\ call[c].got.funding
AnswersFresh == \A c \in Calls : ListFresh(c) /\ DetailFresh(c)

\* The list, or the details on display, show what the console has written,
\* or a call is under way that will get them to.
DataFresh == \A p \in Projects : data[p] # None /\ data[p] >= mine[p]
ListComes == session => DataFresh \/ \E c \in Calls : call[c].awaits \in Refreshes
SelectedFresh ==
    selected # NoDetail =>
        /\ selected.rev >= mine[selected.id]
        /\ selected.quote >= mine[selected.id]
        /\ selected.funding
DetailsCome == SelectedFresh \/ \E c \in Calls : call[c].awaits \in Refreshes \cup {"detail"}

OrderInv ==
    /\ \A p \in Projects : mine[p] =< rev[p]
    /\ ~ disturbed => AnswersFresh /\ ListComes /\ DetailsCome

\* A call stays older than a write that goes on waiting to land.
LEMMA OverwrittenStays ==
    ASSUME NEW c, NEW p, Overwritten(c, p),
           \A d \in Calls : Awaits(d, "write", "answered") /\ c \in call[d].older =>
              /\ call'[d].awaits = call[d].awaits /\ call'[d].phase = call[d].phase
              /\ call'[d].about = call[d].about /\ c \in call'[d].older
    PROVE  Overwritten(c, p)'
BY DEF Overwritten, Awaits

\* An answer stays fresh while nothing more is written.
LEMMA FreshStays ==
    ASSUME NEW c, ListFresh(c), DetailFresh(c), mine' = mine,
           call'[c].awaits = call[c].awaits, call'[c].phase = call[c].phase,
           call'[c].about = call[c].about, call'[c].got = call[c].got,
           call'[c].list = call[c].list,
           \A p : Overwritten(c, p) => Overwritten(c, p)'
    PROVE  ListFresh(c)' /\ DetailFresh(c)'
<1>1. ListFresh(c)'
  BY DEF ListFresh, Awaits
<1>2. DetailFresh(c)'
  BY DEF DetailFresh
<1> QED BY <1>1, <1>2

\* A call that starts has asked for nothing that could be stale; a refresh,
\* started at rest, brings everything up to date.
LEMMA StartOrder ==
    ASSUME Types, OrderInv, NEW c \in Calls, Starts(c)
    PROVE  OrderInv'
<1>1. PageOK /\ \A d \in Calls : call[d] \in Requests
  BY DEF Types, CallsOK
<1>2. PICK what \in Waits \ {"nothing"}, p \in Projects \cup {None},
           then \in {"own", "answer", "refresh"} : Begins(c, what, p, then)
  BY <1>1, StartBegins
<1> DEFINE r == Request(what, p, then)
<1>3. r \in Requests /\ r.awaits = what /\ r.phase = "sent"
  BY RequestOK
<1>4. call'[c] = r /\ \A d \in Calls \ {c} : call'[d] = call[d]
  BY <1>2 DEF Begins, Types, CallsOK
<1>5. call[c].awaits = "nothing" /\ UNCHANGED <<rev, mine, data, selected>>
  BY <1>2 DEF Begins
<1> HIDE DEF r
<1>6. SUFFICES ASSUME ~ disturbed' PROVE AnswersFresh' /\ ListComes' /\ DetailsCome'
  BY <1>5 DEF OrderInv
<1>7. Quiet \/ ~ disturbed
  BY <1>2, <1>6 DEF Begins
<1>8. AnswersFresh'
  <2> SUFFICES ASSUME NEW d \in Calls PROVE ListFresh(d)' /\ DetailFresh(d)'
    BY DEF AnswersFresh
  <2>1. CASE d = c
    BY <1>3, <1>4, <2>1 DEF ListFresh, DetailFresh, Awaits
  <2>2. CASE d # c /\ Quiet
    BY <1>4, <2>2 DEF Quiet, ListFresh, DetailFresh, Awaits, Reads
  <2>3. CASE d # c /\ ~ disturbed
    <3>1. ListFresh(d) /\ DetailFresh(d)
      BY <2>3 DEF OrderInv, AnswersFresh
    <3>2. ASSUME NEW q, Overwritten(d, q) PROVE Overwritten(d, q)'
      <4>1. \A e \in Calls : Awaits(e, "write", "answered") => call'[e] = call[e]
        BY <1>4, <1>5 DEF Awaits
      <4> QED BY <3>2, <4>1, OverwrittenStays
    <3> QED BY <1>4, <1>5, <2>3, <3>1, <3>2, FreshStays
  <2> QED BY <1>7, <2>1, <2>2, <2>3
<1>9. \A d \in Calls : call[d].awaits # "nothing" => call'[d] = call[d]
  BY <1>4, <1>5
<1>10. CASE what = "list"
  BY <1>3, <1>4, <1>8, <1>10 DEF ListComes, DetailsCome, Refreshes
<1>11. CASE what # "list"
  <2>1. disturbed' = disturbed /\ session' = session
    BY <1>2, <1>11 DEF Begins
  <2>2. ListComes /\ DetailsCome
    BY <1>6, <2>1 DEF OrderInv
  <2>3. ListComes'
    BY <1>5, <1>9, <2>1, <2>2 DEF ListComes, DataFresh, Refreshes
  <2>4. DetailsCome'
    BY <1>5, <1>9, <2>2 DEF DetailsCome, SelectedFresh, Refreshes
  <2> QED BY <1>8, <2>3, <2>4
<1> QED BY <1>10, <1>11

\* An answer that overtakes none leaves the page, and the answers still to
\* land, as fresh as they were promised to be.
LEMMA LandOrder ==
    ASSUME Types, OrderInv, NEW c \in Calls, Lands(c)
    PROVE  OrderInv'
<1>1. PageOK /\ CallsOK /\ \A d \in Calls : call[d] \in Requests /\ CallOK(d)
  BY DEF Types, CallsOK
<1>2. /\ call' = Done(c, Follows(c))
      /\ UNCHANGED <<rev, mine, session>>
      /\ disturbed' = (disturbed \/ Overtakes(c))
      /\ call[c].phase = "answered" /\ call[c].awaits \in {"write", "own", "list", "open", "detail"}
      /\ data' = IF call[c].awaits = "list" THEN call[c].list ELSE data
      /\ selected' = IF \/ call[c].awaits \in {"own", "open", "detail"}
                        \/ call[c].awaits = "write" /\ call[c].then = "answer"
                     THEN call[c].got ELSE selected
  BY LandsIs
<1>3. SUFFICES ASSUME ~ disturbed' PROVE AnswersFresh' /\ ListComes' /\ DetailsCome'
  BY <1>2 DEF OrderInv
<1>4. /\ ~ disturbed /\ call[c].older = {}
      /\ AnswersFresh /\ ListComes /\ DetailsCome
  BY <1>2, <1>3 DEF OrderInv, Overtakes
<1>5. call'[c] = Follows(c)
  BY <1>2 DEF Done
<1>6. ASSUME NEW d \in Calls \ {c}
      PROVE  /\ call'[d].awaits = call[d].awaits /\ call'[d].phase = call[d].phase
             /\ call'[d].about = call[d].about /\ call'[d].got = call[d].got
             /\ call'[d].list = call[d].list /\ call'[d].older = call[d].older \ {c}
  <2>1. call'[d] = [call[d] EXCEPT !.older = @ \ {c}]
    BY <1>2 DEF Done
  <2>2. call[d] \in Requests
    BY <1>1
  <2> QED BY <2>1, <2>2 DEF Requests
<1>7. /\ Follows(c).phase = "sent"
      /\ call[c].awaits = "write" => Follows(c).awaits \in {"own", "list"}
      /\ call[c].awaits = "own" => Follows(c).awaits = "list"
      /\ call[c].awaits = "list" => Follows(c).awaits = IF selected = NoDetail
                                                        THEN "nothing" ELSE "detail"
  BY <1>1, FollowsOK
\* What c had to wait for is a write by another call, which waits on.
<1>8. ASSUME NEW d \in Calls, NEW q, Overwritten(d, q)
      PROVE  /\ \E e \in Calls \ {c} : call'[e].awaits = "write"
             /\ d # c => Overwritten(d, q)'
  <2>1. PICK e \in Calls : Awaits(e, "write", "answered") /\ call[e].about = q /\ d \in call[e].older
    BY <1>8 DEF Overwritten
  <2>2. e # c
    BY <1>4, <2>1
  <2>3. d # c => Overwritten(d, q)'
    BY <1>6, <2>1, <2>2 DEF Overwritten, Awaits
  <2> QED BY <1>6, <2>1, <2>2, <2>3 DEF Awaits
<1>9. AnswersFresh'
  <2> SUFFICES ASSUME NEW d \in Calls PROVE ListFresh(d)' /\ DetailFresh(d)'
    BY DEF AnswersFresh
  <2>1. CASE d = c
    BY <1>5, <1>7, <2>1 DEF ListFresh, DetailFresh, Awaits
  <2>2. CASE d # c
    <3>1. ListFresh(d) /\ DetailFresh(d)
      BY <1>4 DEF AnswersFresh
    <3> QED BY <1>2, <1>6, <1>8, <2>2, <3>1, FreshStays
  <2> QED BY <2>1, <2>2
<1>10. ListComes'
  <2>1. CASE call[c].awaits \in {"write", "own"}
    BY <1>5, <1>7, <2>1 DEF ListComes, Refreshes
  <2>2. CASE call[c].awaits = "list"
    <3>1. call[c].list \in [Projects -> 0 .. MaxRev] /\ data' = call[c].list
      BY <1>1, <1>2, <2>2 DEF CallOK, Awaits
    <3>2. \A p \in Projects : call[c].list[p] >= mine[p] \/ Overwritten(c, p)
      BY <1>2, <1>4, <2>2 DEF AnswersFresh, ListFresh, Awaits
    <3>3. ASSUME NEW p \in Projects, Overwritten(c, p)
          PROVE  ListComes'
      BY <1>8, <3>3 DEF ListComes, Refreshes
    <3>4. CASE \A p \in Projects : call[c].list[p] >= mine[p]
      <4>1. None \notin 0 .. MaxRev
        BY NoneAssumption, BoundsAssumption
      <4>2. DataFresh'
        BY <1>2, <3>1, <3>4, <4>1 DEF DataFresh
      <4> QED BY <4>2 DEF ListComes
    <3> QED BY <3>2, <3>3, <3>4
  <2>3. CASE call[c].awaits \in {"open", "detail"}
    <3>1. session => DataFresh \/ \E e \in Calls : call[e].awaits \in Refreshes
      BY <1>4 DEF ListComes
    <3>2. \A e \in Calls : call[e].awaits \in Refreshes => call'[e].awaits \in Refreshes
      BY <1>6, <2>3 DEF Refreshes
    <3>3. DataFresh => DataFresh'
      BY <1>2, <2>3 DEF DataFresh
    <3> QED BY <1>2, <3>1, <3>2, <3>3 DEF ListComes
  <2> QED BY <1>2, <2>1, <2>2, <2>3
<1>11. DetailsCome'
  <2>1. CASE call[c].awaits \in {"write", "own"}
    BY <1>5, <1>7, <2>1 DEF DetailsCome, Refreshes
  <2>2. CASE call[c].awaits = "list"
    BY <1>2, <1>5, <1>7, <2>2 DEF DetailsCome, SelectedFresh
  <2>3. CASE call[c].awaits \in {"open", "detail"}
    <3>1. /\ selected' = call[c].got /\ call[c].got.id = call[c].about
      BY <1>1, <1>2, <2>3 DEF CallOK, Reads
    <3>2. \/ Overwritten(c, call[c].about)
          \/ /\ call[c].got.quote >= mine[call[c].about]
             /\ call[c].got.rev >= mine[call[c].about] /\ call[c].got.funding
      BY <1>2, <1>4, <2>3 DEF AnswersFresh, DetailFresh, Reads
    <3>3. CASE Overwritten(c, call[c].about)
      BY <1>8, <3>3 DEF DetailsCome, Refreshes
    <3>4. CASE /\ call[c].got.quote >= mine[call[c].about]
               /\ call[c].got.rev >= mine[call[c].about] /\ call[c].got.funding
      BY <1>2, <3>1, <3>4 DEF DetailsCome, SelectedFresh
    <3> QED BY <3>2, <3>3, <3>4
  <2> QED BY <1>2, <2>1, <2>2, <2>3
<1> QED BY <1>9, <1>10, <1>11

\* Whatever the API answers is, at that moment, up to date with this
\* console's writes; and a write makes every answer under way older.
LEMMA ApiOrder ==
    ASSUME Types, OrderInv, NEW c \in Calls,
           Write(c) \/ TakeQuote(c) \/ Compose(c) \/ ReadList(c)
    PROVE  OrderInv'
<1> USE DEF apiVars, pageVars
<1>1. CallsOK /\ PageOK /\ rev \in [Projects -> Nat] /\ mine \in [Projects -> Nat]
  BY DEF Types, PageOK
<1>2. UNCHANGED <<session, data, selected, disturbed>>
  BY DEF Write, TakeQuote, Compose, ReadList
<1>3. \A p \in Projects : mine[p] =< rev[p]
  BY DEF OrderInv
<1>4. CASE Write(c)
  <2>1. PICK p \in Projects : p = call[c].about
    BY <1>1, <1>4, WriteIs
  <2>2. /\ Handles(c, "answered") /\ call[c].awaits = "write" /\ call[c].phase = "sent"
        /\ call'[c].older = Handled
    BY <1>1, <1>4, WriteIs
  <2>3. rev' = [rev EXCEPT ![p] = rev[p] + 1] /\ mine' = [mine EXCEPT ![p] = rev[p] + 1]
    BY <1>4, <2>1 DEF Write
  <2>4. \A q \in Projects : mine'[q] =< rev'[q] /\ (q # p => mine'[q] = mine[q])
    BY <1>1, <1>3, <2>3
  <2>5. call'[c].awaits = "write"
    BY <2>2 DEF Handles
  <2>6. ListComes' /\ DetailsCome'
    BY <2>5 DEF ListComes, DetailsCome, Refreshes
  <2>7. ASSUME ~ disturbed PROVE AnswersFresh'
    <3> SUFFICES ASSUME NEW d \in Calls PROVE ListFresh(d)' /\ DetailFresh(d)'
      BY DEF AnswersFresh
    <3>1. CASE d = c
      BY <2>5, <3>1 DEF ListFresh, DetailFresh, Awaits, Reads
    <3>2. CASE d # c
      <4>1. ListFresh(d) /\ DetailFresh(d) /\ call'[d] = call[d]
        BY <2>2, <2>7, <3>2 DEF OrderInv, AnswersFresh, Handles
      <4>2. call[d].phase # "sent" => Overwritten(d, p)'
        BY <2>1, <2>2 DEF Overwritten, Awaits, Handles, Handled
      <4>3. ASSUME NEW q, Overwritten(d, q) PROVE Overwritten(d, q)'
        <5>1. \A e \in Calls : Awaits(e, "write", "answered") => call'[e] = call[e]
          BY <2>2 DEF Awaits, Handles
        <5> QED BY <4>3, <5>1, OverwrittenStays
      <4>4. ListFresh(d)'
        BY <2>4, <4>1, <4>2, <4>3 DEF ListFresh, Awaits
      <4>5. DetailFresh(d)'
        <5>1. SUFFICES ASSUME call[d].awaits \in Reads, call[d].phase # "sent",
                              call[d].about # p
                       PROVE  \/ Overwritten(d, call[d].about)'
                              \/ /\ call[d].got.quote >= mine'[call[d].about]
                                 /\ call[d].phase = "answered" =>
                                       call[d].got.rev >= mine'[call[d].about] /\ call[d].got.funding
          BY <4>1, <4>2 DEF DetailFresh
        <5>2. call[d].about \in Projects
          BY <1>1, <5>1 DEF CallsOK, CallOK
        <5> QED BY <2>4, <4>1, <4>3, <5>1, <5>2 DEF DetailFresh
      <4> QED BY <4>4, <4>5
    <3> QED BY <3>1, <3>2
  <2> QED BY <1>2, <2>4, <2>6, <2>7 DEF OrderInv
<1>5. CASE TakeQuote(c) \/ Compose(c) \/ ReadList(c)
  <2>1. PICK phase : Handles(c, phase)
    BY <1>1, <1>5, TakeQuoteIs, ComposeIs, ReadListIs
  <2>2. UNCHANGED <<rev, mine>> /\ call[c].awaits # "write"
    <3>1. call[c].awaits \in Reads \cup {"list"}
      BY <1>1, <1>5, TakeQuoteIs, ComposeIs, ReadListIs
    <3> QED BY <1>5, <3>1 DEF TakeQuote, Compose, ReadList, Reads
  <2>3. \A d \in Calls : call'[d].awaits = call[d].awaits
    BY <2>1 DEF Handles
  <2>4. ASSUME ~ disturbed PROVE AnswersFresh' /\ ListComes' /\ DetailsCome'
    <3>1. AnswersFresh /\ ListComes /\ DetailsCome
      BY <2>4 DEF OrderInv
    <3>2. ListComes'
      BY <1>2, <2>2, <2>3, <3>1 DEF ListComes, DataFresh
    <3>3. DetailsCome'
      BY <1>2, <2>2, <2>3, <3>1 DEF DetailsCome, SelectedFresh
    <3>4. ASSUME NEW d \in Calls, NEW q, Overwritten(d, q) PROVE Overwritten(d, q)'
      <4>1. \A e \in Calls : Awaits(e, "write", "answered") => call'[e] = call[e]
        BY <2>1, <2>2 DEF Awaits, Handles
      <4> QED BY <3>4, <4>1, OverwrittenStays
    <3>5. ASSUME NEW d \in Calls \ {c} PROVE ListFresh(d)' /\ DetailFresh(d)'
      <4>1. ListFresh(d) /\ DetailFresh(d) /\ call'[d] = call[d]
        BY <2>1, <3>1 DEF AnswersFresh, Handles
      <4> QED BY <2>2, <3>4, <4>1, FreshStays
    <3>6. ListFresh(c)' /\ DetailFresh(c)'
      <4>1. CASE TakeQuote(c)
        <5>1. PICK p \in Projects : p = call[c].about
          BY <1>1, <4>1, TakeQuoteIs
        <5>2. /\ Handles(c, "half") /\ call[c].awaits \in Reads
              /\ call'[c].got = [id |-> p, rev |-> 0, quote |-> rev[p], funding |-> FALSE]
          BY <1>1, <4>1, <5>1, TakeQuoteIs
        <5>3. /\ call'[c].phase = "half" /\ call'[c].about = p /\ call'[c].got.quote >= mine'[p]
              /\ call'[c].awaits \in Reads
          BY <1>1, <1>3, <2>2, <5>1, <5>2 DEF Handles
        <5> QED BY <5>3 DEF ListFresh, DetailFresh, Awaits, Reads
      <4>2. CASE Compose(c)
        <5>1. PICK p \in Projects : p = call[c].about
          BY <1>1, <4>2, ComposeIs
        <5>2. /\ Handles(c, "answered") /\ call[c].awaits \in Reads /\ call[c].phase = "half"
              /\ call'[c].got = [id |-> p, rev |-> rev[p], quote |-> call[c].got.quote,
                                 funding |-> TRUE]
          BY <1>1, <4>2, <5>1, ComposeIs
        <5>3. Overwritten(c, p) \/ call[c].got.quote >= mine[p]
          BY <3>1, <5>1, <5>2 DEF AnswersFresh, DetailFresh
        <5>4. /\ call'[c].phase = "answered" /\ call'[c].about = p /\ call'[c].awaits \in Reads
              /\ call'[c].got.quote = call[c].got.quote /\ call'[c].got.rev >= mine'[p]
              /\ call'[c].got.funding
          BY <1>1, <1>3, <2>2, <5>1, <5>2 DEF Handles
        <5>5. Overwritten(c, p)' \/ call'[c].got.quote >= mine'[p]
          BY <2>2, <3>4, <5>3, <5>4
        <5> QED BY <5>4, <5>5 DEF ListFresh, DetailFresh, Awaits, Reads
      <4>3. CASE ReadList(c)
        <5>1. Handles(c, "answered") /\ call[c].awaits = "list" /\ call'[c].list = rev
          BY <1>1, <4>3, ReadListIs
        <5>2. \A p \in Projects : call'[c].list[p] >= mine'[p]
          BY <1>1, <1>3, <2>2, <5>1
        <5>3. call'[c].awaits = "list"
          BY <5>1 DEF Handles
        <5> QED BY <5>2, <5>3 DEF ListFresh, DetailFresh, Reads
      <4> QED BY <1>5, <4>1, <4>2, <4>3
    <3> QED BY <3>2, <3>3, <3>5, <3>6 DEF AnswersFresh
  <2> QED BY <1>2, <1>3, <2>2, <2>4 DEF OrderInv
<1> QED BY <1>4, <1>5

\* Every step keeps the answers in order.
LEMMA NextOrder == Types /\ OrderInv /\ [Next]_vars => OrderInv'
<1> SUFFICES ASSUME Types, OrderInv, [Next]_vars PROVE OrderInv'
  OBVIOUS
<1> USE DEF apiVars, pageVars
<1>1. ASSUME UNCHANGED <<call, mine, data, disturbed>>,
             \A p \in Projects : mine[p] =< rev'[p],
             session' => session,
             selected' = selected \/ selected' = NoDetail
      PROVE  OrderInv'
  <2>1. AnswersFresh => AnswersFresh'
    BY <1>1 DEF AnswersFresh, ListFresh, DetailFresh, Overwritten, Awaits
  <2>2. ListComes => ListComes'
    BY <1>1 DEF ListComes, DataFresh
  <2>3. DetailsCome => DetailsCome'
    BY <1>1 DEF DetailsCome, SelectedFresh
  <2> QED BY <1>1, <2>1, <2>2, <2>3 DEF OrderInv
<1>2. CASE UNCHANGED call /\ Logout
  <2>1. AnswersFresh => AnswersFresh'
    BY <1>2 DEF Logout, AnswersFresh, ListFresh, DetailFresh, Overwritten, Awaits
  <2>2. ListComes' /\ DetailsCome'
    BY <1>2 DEF Logout, ListComes, DetailsCome, SelectedFresh
  <2> QED BY <1>2, <2>1, <2>2 DEF Logout, OrderInv
<1>3. CASE UNCHANGED call /\ (ClearSelection \/ UNCHANGED vars \/ \E p \in Projects \cup {None} : Navigate(p))
  <2>1. \A p \in Projects : mine[p] =< rev[p]
    BY DEF OrderInv
  <2> QED BY <1>1, <1>3, <2>1 DEF ClearSelection, Navigate, vars
<1>4. ASSUME UNCHANGED call, NEW p \in Projects, Elsewhere(p)
      PROVE  OrderInv'
  <2>1. \A q \in Projects : mine[q] =< rev[q] /\ mine[q] \in Nat /\ rev[q] \in Nat
    BY DEF OrderInv, Types, PageOK
  <2>2. rev' = [rev EXCEPT ![p] = @ + 1] /\ DOMAIN rev = Projects
    BY <1>4 DEF Elsewhere, Types, PageOK
  <2>3. \A q \in Projects : mine[q] =< rev'[q]
    BY <2>1, <2>2
  <2> QED BY <1>1, <1>4, <2>3 DEF Elsewhere
<1>5. ASSUME NEW c \in Calls, Fail(c) PROVE OrderInv'
  BY <1>5 DEF Fail, OrderInv
<1> QED BY <1>2, <1>3, <1>4, <1>5, NextSorted, StartOrder, LandOrder, ApiOrder

\* Own writes on display: for any number of clicks whose calls overlap, of
\* projects and of writes by others, the page at rest shows everything this
\* console has written, unless an answer was lost or overtaken since the
\* last refresh at rest.
THEOREM OwnWritesShown == Spec => []ShowsOwnWrites
<1>1. Init => OrderInv
  <2> SUFFICES ASSUME Init PROVE OrderInv
    OBVIOUS
  <2>1. \A c \in Calls : call[c] = Idle
    BY DEF Init
  <2>2. AnswersFresh
    BY <2>1, IdleOK DEF AnswersFresh, ListFresh, DetailFresh, Awaits, Reads
  <2>3. ListComes /\ DetailsCome
    BY DEF Init, ListComes, DetailsCome, SelectedFresh
  <2>4. \A p \in Projects : mine[p] =< rev[p]
    BY DEF Init
  <2> QED BY <2>2, <2>3, <2>4 DEF OrderInv
<1>2. OrderInv => ShowsOwnWrites
  <2> SUFFICES ASSUME OrderInv, Quiet, session, ~ disturbed PROVE DataFresh /\ SelectedFresh
    BY DEF ShowsOwnWrites, DataFresh, SelectedFresh
  <2>1. \A c \in Calls : call[c].awaits \notin Refreshes \cup {"detail"}
    BY DEF Quiet, Refreshes
  <2> QED BY <2>1 DEF OrderInv, ListComes, DetailsCome
<1> QED BY <1>1, <1>2, InitTypes, NextTypes, NextOrder, PTL DEF Spec

===============================================================================
