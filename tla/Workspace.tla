------------------------------ MODULE Workspace ------------------------------
(***************************************************************************)
(* The web console's hooks: useSession, useWorkspace, useOperationsActions *)
(* and the effect of BatchesPage that opens a project.  The console keeps  *)
(* copies of what the API holds: the list of projects and the details of   *)
(* the one on display.  Each click, and the effect, starts a call, a chain *)
(* of requests whose answers come in any order or not at all.              *)
(*                                                                         *)
(* What the API holds about a project is its revision, the number of       *)
(* writes so far.  GET /batches/:id finds the quote before two awaits and  *)
(* writes the answer after them, so one answer can hold two revisions.     *)
(* Left out: messages, other pages' forms, and the reads of bootstrap one  *)
(* by one.                                                                 *)
(*                                                                         *)
(* A definition named as a mutant is a plausible bug in the one after it,  *)
(* kept to show that a run would notice it; no action uses it.             *)
(***************************************************************************)
EXTENDS Naturals, FiniteSets, Functions

CONSTANTS
    Projects,       \* project ids
    First,          \* the one at the head of the list
    Calls,          \* bound: calls in flight
    MaxRev,         \* bound: writes to projects
    MaxFailures,    \* bound: requests that fail
    None            \* no project, no revision

ASSUME FirstAssumption == First \in Projects
ASSUME FiniteAssumption == IsFiniteSet(Projects)
ASSUME NoneAssumption == None \notin Projects \cup Nat
ASSUME BoundsAssumption == MaxRev \in Nat /\ MaxFailures \in Nat

VARIABLES
    rev,        \* a project's revision at the API
    mine,       \* the revision this console's last write to it made
    session,    \* whether someone is logged in
    url,        \* the project the address names, or None
    data,       \* the list: its revision of each project, or NoData
    selected,   \* the details on display, or NoDetail
    loading,    \* "Syncing" when true, "Ready" when false
    call,       \* what each call is doing
    failures,   \* requests that failed so far
    disturbed   \* an answer was lost or overtaken since the last clean refresh

apiVars == <<rev, mine>>
pageVars == <<data, selected, loading>>
vars == <<apiVars, session, url, pageVars, call, failures, disturbed>>

NoData == [p \in Projects |-> None]

\* Details: the project, its revision, the revision its quote is of, and
\* whether its funding instruction and transfers are there.
Details == [id : Projects, rev : 0 .. MaxRev, quote : 0 .. MaxRev, funding : BOOLEAN]
NoDetail == [id |-> None, rev |-> 0, quote |-> 0, funding |-> FALSE]

\* What a call awaits: a write, the read that follows it, the read of
\* openBatch, and refreshWorkspace's read of the list and then of the
\* details.  phase: not yet handled by the API, half read, or answered.
\* then: what the action does with the answer to its write.  got, list: the
\* answer.  older: the calls that were handled earlier and are not answered.
Idle == [awaits |-> "nothing", phase |-> "sent", then |-> "refresh", about |-> None,
         got |-> NoDetail, list |-> NoData, older |-> {}]

-------------------------------------------------------------------------------
Awaits(c, what, phase) == call[c].awaits = what /\ call[c].phase = phase
Quiet == \A c \in Calls : call[c].awaits = "nothing"

Request(what, p, then) ==
    [Idle EXCEPT !.awaits = what, !.about = p, !.then = then]

\* The calls the API has begun to handle.
Handled == {c \in Calls : call[c].phase # "sent"}

\* The writes so far and to come.
Planned ==
    SumFunction(rev) + Cardinality({c \in Calls : Awaits(c, "write", "sent")})

\* The answer to c overtakes those of calls that were handled earlier; once
\* it is there, nobody waits for c.
Overtakes(c) == call[c].older # {}
Done(c, next) ==
    [d \in Calls |-> IF d = c THEN next ELSE [call[d] EXCEPT !.older = @ \ {c}]]

-------------------------------------------------------------------------------
Init ==
    /\ rev = [p \in Projects |-> 0]
    /\ mine = [p \in Projects |-> 0]
    /\ session = FALSE
    /\ url = None
    /\ data = NoData
    /\ selected = NoDetail
    /\ loading = FALSE
    /\ call = [c \in Calls |-> Idle]
    /\ failures = 0
    /\ disturbed = FALSE

\* A call starts with its first request.
Start(c, request) ==
    /\ session
    /\ call[c].awaits = "nothing"
    /\ call' = [call EXCEPT ![c] = request]
    /\ loading' = TRUE

\* login; the effect on the new token refreshes the workspace.
Login(c) ==
    /\ ~ session
    /\ session' = TRUE
    /\ call[c].awaits = "nothing"
    /\ call' = [call EXCEPT ![c] = Request("list", None, "refresh")]
    /\ loading' = TRUE
    /\ disturbed' = IF Quiet THEN FALSE ELSE disturbed
    /\ UNCHANGED <<apiVars, url, data, selected, failures>>

\* handleLogout: logout and resetWorkspace.  Calls in flight go on.
Logout ==
    /\ session
    /\ session' = FALSE
    /\ data' = NoData
    /\ selected' = NoDetail
    /\ UNCHANGED <<apiVars, url, loading, call, failures, disturbed>>

\* A link or the address bar.
Navigate(p) ==
    /\ session
    /\ url' = p
    /\ UNCHANGED <<apiVars, session, pageVars, call, failures, disturbed>>

\* The "Refresh" button.  Pressed when nothing runs, it starts clean.
Refresh(c) ==
    /\ Start(c, Request("list", None, "refresh"))
    /\ disturbed' = IF Quiet THEN FALSE ELSE disturbed
    /\ UNCHANGED <<apiVars, session, url, data, selected, failures>>

\* openBatch, by a click on a row of the list.
OpenBatch(c, p) ==
    /\ data # NoData
    /\ Start(c, Request("open", p, "refresh"))
    /\ UNCHANGED <<apiVars, session, url, data, selected, failures, disturbed>>

\* onClearSelection, the "x" of the detail panel.
ClearSelection ==
    /\ selected # NoDetail
    /\ selected' = NoDetail
    /\ UNCHANGED <<apiVars, session, url, data, loading, call, failures, disturbed>>

\* Mutant of Wanted: a selection is never replaced by the address.
WantedOnce ==
    IF selected # NoDetail \/ data = NoData THEN None ELSE IF url # None THEN url ELSE First

\* The project the effect of BatchesPage opens, if any.
Wanted ==
    IF data = NoData THEN None
    ELSE IF url # None /\ selected.id # url THEN url
    ELSE IF url = None /\ selected = NoDetail THEN First
    ELSE None

\* The effect runs again whenever the page is rendered with another list,
\* address or selection; openBatch is a new function at each rendering.
Effect(c) ==
    /\ Wanted # None
    /\ Start(c, Request("open", Wanted, "refresh"))
    /\ UNCHANGED <<apiVars, session, url, data, selected, failures, disturbed>>

\* runAction.  Most actions act on the project on display, whose details
\* they read again ("own") or find in the answer ("answer"); company,
\* people, exception and compliance actions only refresh.
Act(c, p, then) ==
    /\ \/ then \in {"own", "answer"} /\ selected.id = p
       \/ then = "refresh"
    /\ Planned < MaxRev      \* bound
    /\ Start(c, Request("write", p, then))
    /\ UNCHANGED <<apiVars, session, url, data, selected, failures, disturbed>>

\* Someone else, or the watcher, writes to a project.
Elsewhere(p) ==
    /\ Planned < MaxRev      \* bound
    /\ rev' = [rev EXCEPT ![p] = @ + 1]
    /\ UNCHANGED <<mine, session, url, pageVars, call, failures, disturbed>>

\* The API carries out a write.  approveBatch and createBatch answer with
\* getBatchDetail, which knows of no funding.
Write(c) ==
    LET p == call[c].about
        new == rev[p] + 1
    IN  /\ Awaits(c, "write", "sent")
        /\ rev' = [rev EXCEPT ![p] = new]
        /\ mine' = [mine EXCEPT ![p] = new]
        /\ call' = [call EXCEPT
              ![c].phase = "answered",
              ![c].got = IF call[c].then = "answer"
                         THEN [id |-> p, rev |-> new, quote |-> new, funding |-> FALSE]
                         ELSE NoDetail,
              ![c].older = Handled]
        /\ UNCHANGED <<session, url, pageVars, failures, disturbed>>

\* getById up to its first await ...
TakeQuote(c) ==
    /\ \E what \in {"own", "open", "detail"} : Awaits(c, what, "sent")
    /\ call' = [call EXCEPT ![c].phase = "half",
                            ![c].got = [id |-> call[c].about, rev |-> 0,
                                        quote |-> rev[call[c].about], funding |-> FALSE],
                            ![c].older = Handled]
    /\ UNCHANGED <<apiVars, session, url, pageVars, failures, disturbed>>

\* ... and after the last.
Compose(c) ==
    /\ call[c].phase = "half"
    /\ call' = [call EXCEPT ![c].phase = "answered",
                            ![c].got.rev = rev[call[c].about], ![c].got.funding = TRUE]
    /\ UNCHANGED <<apiVars, session, url, pageVars, failures, disturbed>>

\* bootstrap
ReadList(c) ==
    /\ Awaits(c, "list", "sent")
    /\ call' = [call EXCEPT ![c].phase = "answered", ![c].list = rev,
                            ![c].older = Handled]
    /\ UNCHANGED <<apiVars, session, url, pageVars, failures, disturbed>>

\* Mutant of AfterWrite: the closure's selection may be gone by now.
AfterWriteUnguarded(c) ==
    IF call[c].then = "own" THEN Request("own", selected.id, "refresh")
    ELSE Request("list", None, "refresh")

\* What a call does when the answer to its write is there.
AfterWrite(c) ==
    IF call[c].then = "own" THEN Request("own", call[c].about, "refresh")
    ELSE Request("list", None, "refresh")

\* An answer arrives at the console.
WriteAnswered(c) ==
    /\ Awaits(c, "write", "answered")
    /\ call' = Done(c, AfterWrite(c))
    /\ selected' = IF call[c].then = "answer" THEN call[c].got ELSE selected
    /\ disturbed' = (disturbed \/ Overtakes(c))
    /\ loading' = TRUE
    /\ UNCHANGED <<apiVars, session, url, data, failures>>

OwnAnswered(c) ==
    /\ Awaits(c, "own", "answered")
    /\ call' = Done(c, Request("list", None, "refresh"))
    /\ selected' = call[c].got
    /\ disturbed' = (disturbed \/ Overtakes(c))
    /\ loading' = TRUE
    /\ UNCHANGED <<apiVars, session, url, data, failures>>

\* Mutant of ListAnswered: refreshWorkspace forgets the details.
ListOnly(c) ==
    /\ Awaits(c, "list", "answered")
    /\ call' = Done(c, Idle)
    /\ data' = call[c].list
    /\ loading' = FALSE
    /\ disturbed' = (disturbed \/ Overtakes(c))
    /\ UNCHANGED <<apiVars, session, url, selected, failures>>

\* refreshWorkspace goes on to the project on display at this moment.
ListAnswered(c) ==
    /\ Awaits(c, "list", "answered")
    /\ data' = call[c].list
    /\ \/ /\ selected = NoDetail
          /\ call' = Done(c, Idle)
          /\ loading' = FALSE
       \/ /\ selected # NoDetail
          /\ call' = Done(c, Request("detail", selected.id, "refresh"))
          /\ loading' = loading
    /\ disturbed' = (disturbed \/ Overtakes(c))
    /\ UNCHANGED <<apiVars, session, url, selected, failures>>

\* The last answer of openBatch, or of refreshWorkspace.
DetailAnswered(c) ==
    /\ Awaits(c, "open", "answered") \/ Awaits(c, "detail", "answered")
    /\ call' = Done(c, Idle)
    /\ selected' = call[c].got
    /\ disturbed' = (disturbed \/ Overtakes(c))
    /\ loading' = FALSE
    /\ UNCHANGED <<apiVars, session, url, data, failures>>

\* Mutant of Fail: the finally block is missing.
FailStayingBusy(c) ==
    /\ call[c].awaits # "nothing"
    /\ failures < MaxFailures
    /\ failures' = failures + 1
    /\ call' = Done(c, Idle)
    /\ disturbed' = TRUE
    /\ UNCHANGED <<apiVars, session, url, pageVars>>

\* A request is refused, or its answer is lost: the catch block, and the
\* finally block.  A refresh that fails inside an action is caught within.
Fail(c) ==
    /\ call[c].awaits # "nothing"
    /\ failures < MaxFailures       \* bound
    /\ failures' = failures + 1
    /\ call' = Done(c, Idle)
    /\ loading' = FALSE
    /\ disturbed' = TRUE
    /\ UNCHANGED <<apiVars, session, url, data, selected>>

\* The API and the network do their part.
Answer(c) ==
    \/ Write(c) \/ TakeQuote(c) \/ Compose(c) \/ ReadList(c)
    \/ WriteAnswered(c) \/ OwnAnswered(c) \/ ListAnswered(c) \/ DetailAnswered(c)

Clicks ==
    \/ Logout
    \/ ClearSelection
    \/ \E p \in Projects \cup {None} : Navigate(p)
    \/ \E c \in Calls :
          \/ Login(c)
          \/ Refresh(c)
          \/ \E p \in Projects :
                OpenBatch(c, p) \/ \E then \in {"own", "answer", "refresh"} : Act(c, p, then)

Next ==
    \/ Clicks
    \/ \E p \in Projects : Elsewhere(p)
    \/ \E c \in Calls : Effect(c) \/ Answer(c) \/ Fail(c)

Spec == Init /\ [][Next]_vars

\* Requests are answered, and the effect runs after a rendering whatever
\* else is going on.
Fairness ==
    /\ \A c \in Calls : WF_vars(Answer(c))
    /\ SF_vars(\E c \in Calls : Effect(c))

FairSpec == Spec /\ Fairness

-------------------------------------------------------------------------------
\* Every variable has the shape its declaration promises; a call that waits
\* for an answer about a project knows which one.
TypeOK ==
    /\ rev \in [Projects -> 0 .. MaxRev]
    /\ mine \in [Projects -> 0 .. MaxRev]
    /\ session \in BOOLEAN
    /\ url \in Projects \cup {None}
    /\ data \in [Projects -> (0 .. MaxRev) \cup {None}]
    /\ selected \in Details \cup {NoDetail}
    /\ loading \in BOOLEAN
    /\ failures \in 0 .. MaxFailures
    /\ disturbed \in BOOLEAN
    /\ \A c \in Calls :
          /\ call[c].awaits \in {"nothing", "write", "own", "open", "list", "detail"}
          /\ call[c].phase \in {"sent", "half", "answered"}
          /\ call[c].got \in Details \cup {NoDetail}
          /\ call[c].list \in [Projects -> (0 .. MaxRev) \cup {None}]
          /\ call[c].older \subseteq Calls \ {c}
          /\ call[c].awaits \in {"write", "own", "open", "detail"} => call[c].about \in Projects

\* When nothing is running, and since the last refresh made at rest every
\* answer came, in the order the API handled the requests, the page shows
\* everything this console has written: list, status, quote and funding.
\* The answers are put together from reads before and after other calls'
\* writes, and land on whatever is on display by then.
ShowsOwnWrites ==
    Quiet /\ session /\ ~ disturbed =>
        /\ \A p \in Projects : data[p] # None /\ data[p] >= mine[p]
        /\ selected # NoDetail =>
              /\ selected.rev >= mine[selected.id]
              /\ selected.quote >= mine[selected.id]
              /\ selected.funding

\* The console says "Ready" once nothing runs any more: calls that overlap,
\* fail or outlive their session never leave it "Syncing".
ReadyWhenQuiet == Quiet => ~ loading

\* The project the address names gets on display, whichever calls about
\* other projects are still to land, while API answers.
AddressIsShown ==
    \A p \in Projects :
        (session /\ data # NoData /\ url = p) ~> (selected.id = p \/ url # p \/ ~ session)
===============================================================================
