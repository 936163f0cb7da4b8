--------------------------------- MODULE Seed ---------------------------------
(***************************************************************************)
(* The script seed-operations.mjs, which fills the database with projects  *)
(* for a demonstration: it deletes what an earlier run left, then inserts  *)
(* row after row.  Each statement commits on its own, so the script may be *)
(* killed between any two, and is run again from the start.  The API may   *)
(* write to the same tables at any time.                                   *)
(*                                                                         *)
(* A row is its table, its id, the project it is about, and the rows it    *)
(* points to with a foreign key (schema.prisma).  Ids are written without  *)
(* the prefixes they have in the script, and a user's e-mail, which the    *)
(* script finds it by, is the id; amounts, names and dates are left out.   *)
(* So are the webhook events, of which the script writes none: those of    *)
(* the API have no project, and their ids no "seed_".                      *)
(*                                                                         *)
(* A definition named as a mutant is a plausible bug in the one after it,  *)
(* kept to show that a run would notice it; no action uses it.             *)
(***************************************************************************)
EXTENDS Integers, FiniteSets, SequencesExt

CONSTANT Foreign    \* what is in the database and not the script's

VARIABLES
    db,         \* the rows stored
    pc,         \* the statement that is next, or 0 when the script is not running
    finished,   \* whether the last run came to its end
    refused,    \* whether the database refused a statement of the script
    touched,    \* whether the API wrote since the last run started
    recording   \* the projects whose funding the API is recording

vars == <<db, pc, finished, refused, touched, recording>>

-------------------------------------------------------------------------------
\* The data of the script, in its order: projects and people.
BatchSpecs == <<"co_awaiting_approval", "co_dispatching", "co_completed", "co_exception",
                "mx_awaiting_funding", "mx_in_review", "ar_validated", "ar_completed">>
Beneficiaries == <<"co_001", "co_002", "co_003", "co_004", "mx_001", "mx_002", "mx_003",
                   "ar_001", "ar_002">>

\* The project each of the people is paid in, by one payout each.
ProjectOf ==
    [co_001 |-> "co_awaiting_approval", co_002 |-> "co_dispatching",
     co_003 |-> "co_completed",         co_004 |-> "co_exception",
     mx_001 |-> "mx_awaiting_funding",  mx_002 |-> "mx_in_review",
     mx_003 |-> "mx_in_review",         ar_001 |-> "ar_validated",
     ar_002 |-> "ar_completed"]

\* The projects past their approval, those with their money, and the others.
QuotedBatches == SelectSeq(BatchSpecs,
    LAMBDA b : b \notin {"co_awaiting_approval", "ar_validated"})
FundedBatches == <<"co_dispatching", "co_completed", "co_exception", "mx_in_review",
                   "ar_completed">>
PendingFundingBatches == <<"mx_awaiting_funding">>

Batches == ToSet(BatchSpecs)
People == ToSet(Beneficiaries)
PendingFunding == ToSet(PendingFundingBatches)

Row(table, id, batch, refs) == [table |-> table, id |-> id, batch |-> batch, refs |-> refs]
Key(r) == <<r.table, r.id>>
Nothing == "no project"

Company == Row("company", "acme", Nothing, {})
OfCompany(table, id) == Row(table, id, Nothing, {Key(Company)})

\* seedBaseActors
Actors == <<Company, OfCompany("wallet", "acme"), OfCompany("user", "finance"),
            OfCompany("user", "approver"), OfCompany("user", "compliance")>>

Beneficiary(n) == OfCompany("beneficiary", n)
Batch(b) == Row("batch", b, b, {Key(Company)})
Payout(n) == Row("payout", n, ProjectOf[n], {Key(Batch(ProjectOf[n])), Key(Beneficiary(n))})
About(table, b) == Row(table, b, b, {Key(Batch(b))})
Instruction(b) == Row("instruction", b, b, {})
Transaction(b, id) == Row("transaction", id, b, {Key(Instruction(b))})
Loose(table, b) == Row(table, b, b, {})
ReviewCase ==
    Row("compliance", "mx_review", "mx_in_review",
        {Key(Batch("mx_in_review")), Key(Payout("mx_002"))})

Each(F(_), seq) == [i \in DOMAIN seq |-> F(seq[i])]

\* seedBatchesAndPayouts
BatchesAndPayouts ==
    Each(Batch, BatchSpecs)
    \o Each(Payout, Beneficiaries)
    \o Each(LAMBDA b : About("quote", b), QuotedBatches)
    \o Each(LAMBDA b : About("approval", b), QuotedBatches)

\* seedFundingAndOperationalSignals
FundingAndSignals ==
    FlattenSeq(Each(LAMBDA b : <<Instruction(b), Transaction(b, b)>>, FundedBatches))
    \o Each(Instruction, PendingFundingBatches)
    \o Each(LAMBDA b : Loose("exception", b), <<"co_exception", "mx_in_review">>)
    \o <<ReviewCase>>
    \o Each(LAMBDA b : Loose("ledger", b), <<"co_dispatching", "co_completed", "ar_completed">>)
    \o Each(LAMBDA b : Loose("audit", b), BatchSpecs)

\* What is inserted: seedBeneficiaries, and the two above.
Inserted == Each(Beneficiary, Beneficiaries) \o BatchesAndPayouts \o FundingAndSignals

SeedRows == ToSet(Actors) \cup ToSet(Inserted)

\* The rows the script writes, in its order, and the keys of those before one.
Written == Actors \o Inserted
Before(i) == {Key(Written[j]) : j \in 1 .. i - 1}

\* Mutant of ClearOrder: people go before their payouts.
ClearInOrderOfInsertion ==
    <<"ledger", "audit", "exception", "compliance", "approval", "transaction",
      "beneficiary", "batch", "instruction", "quote", "payout">>

\* Mutant of ClearOrder: projects go before what is about them.
ClearProjectsFirst ==
    <<"batch", "ledger", "audit", "exception", "compliance", "approval",
      "transaction", "instruction", "quote", "payout", "beneficiary">>

\* clearSeedData
ClearOrder ==
    <<"ledger", "audit", "exception", "compliance", "approval", "transaction",
      "instruction", "quote", "payout", "batch", "beneficiary">>

\* What can be read off these data: every row is written once, after the rows
\* it points to and the project it is about; only payouts point to people;
\* what is inserted is what is cleared; and no id is one of the API's.
ASSUME WrittenAssumption ==
    /\ Inserted \in Seq(ToSet(Inserted))
    /\ \A i, j \in DOMAIN Written : Key(Written[i]) = Key(Written[j]) => i = j
    /\ \A i \in DOMAIN Written :
          LET row == Written[i] IN
          /\ DOMAIN row = {"table", "id", "batch", "refs"}
          /\ row.id # "api"
          /\ row.refs \subseteq Before(i)
          /\ row.batch # Nothing =>
                row.batch \in Batches /\ Batch(row.batch) \in {Written[j] : j \in 1 .. i}
          /\ (\E n \in People : Key(Beneficiary(n)) \in row.refs) => row.table = "payout"
    /\ \A row \in ToSet(Inserted) :
          /\ row.table \in ToSet(ClearOrder)
          /\ IF row.table = "beneficiary" THEN row.id \in People /\ row.batch = Nothing
             ELSE row.batch \in Batches
    /\ \A n \in People : Beneficiary(n) \in SeedRows

\* What else is in the database is about projects of others, has ids of its
\* own, and points to nothing of the script's.  Nor does any of it have an id,
\* or the id of a payout, with a prefix of the script's ("seed_"), which
\* clearSeedData looks for besides the projects: randomUUID makes none.
ASSUME ForeignAssumption ==
    \A r \in Foreign :
        /\ DOMAIN r = {"table", "id", "batch", "refs"}
        /\ r.batch \notin Batches
        /\ r.id # "api"
        /\ Key(r) \notin {Key(s) : s \in SeedRows}
        /\ r.refs \subseteq {Key(s) : s \in Foreign}

Statement(do, what) == [do |-> do, what |-> what]

\* main
Script ==
    Each(LAMBDA t : Statement("delete", t), ClearOrder)
    \o Each(LAMBDA r : Statement("upsert", r), Actors)
    \o Each(LAMBDA r : Statement("create", r), Inserted)

\* Mutant of IsSeed: only the script's own ids are looked for.
IsSeedById(r) == Key(r) \in {Key(s) : s \in SeedRows}

\* Mutant of IsSeed: there is no "where".
IsAnything(r) == TRUE

\* The "where" of a deletion: the script's people by their id, and every row
\* about one of the script's projects, whoever wrote it.  The prefixes that
\* are looked for, too, find no other row (ForeignAssumption).
IsSeed(r) == IF r.table = "beneficiary" THEN r.id \in People ELSE r.batch \in Batches

-------------------------------------------------------------------------------
Stored(key) == \E r \in db : Key(r) = key

\* The rows that point to one of the rows S.
Dependents(S) == {r \in db : \E s \in S : Key(s) \in r.refs}

\* A deletion takes along what points to its rows, except that people who
\* have a payout cannot be deleted.
Delete(table) ==
    LET rows == {r \in db : r.table = table /\ IsSeed(r)}
        also == rows \cup Dependents(rows)
    IN  IF table = "beneficiary" /\ Dependents(rows) # {}
        THEN refused' = TRUE /\ pc' = 0 /\ db' = db
        ELSE refused' = refused /\ pc' = pc + 1 /\ db' = db \ (also \cup Dependents(also))

\* A row with this key stays, with other names; else it is what the script
\* says.
Upsert(row) ==
    /\ db' = IF Stored(Key(row)) THEN db ELSE db \cup {row}
    /\ refused' = refused
    /\ pc' = pc + 1

\* Ids, references and signatures are unique, and foreign keys point to rows.
Create(row) ==
    IF Stored(Key(row)) \/ \E key \in row.refs : ~ Stored(key)
    THEN refused' = TRUE /\ pc' = 0 /\ db' = db
    ELSE refused' = refused /\ pc' = pc + 1 /\ db' = db \cup {row}

-------------------------------------------------------------------------------
Init ==
    /\ db = Foreign
    /\ pc = 0
    /\ finished = FALSE /\ refused = FALSE /\ touched = FALSE
    /\ recording = {}

Start ==
    /\ pc = 0
    /\ pc' = 1
    /\ finished' = FALSE /\ touched' = FALSE
    /\ UNCHANGED <<db, refused, recording>>

Step ==
    /\ pc \in DOMAIN Script
    /\ LET s == Script[pc] IN
          \/ s.do = "delete" /\ Delete(s.what)
          \/ s.do = "upsert" /\ Upsert(s.what)
          \/ s.do = "create" /\ Create(s.what)
    /\ UNCHANGED <<finished, touched, recording>>

\* Mutant of Finish: the counter of the statements is left where it is.
FinishOnly ==
    /\ pc = Len(Script) + 1
    /\ finished' = TRUE
    /\ pc' = pc + 1
    /\ UNCHANGED <<db, refused, touched, recording>>

Finish ==
    /\ pc = Len(Script) + 1
    /\ finished' = TRUE
    /\ pc' = 0
    /\ UNCHANGED <<db, refused, touched, recording>>

\* The script is killed, or loses the database.
Crash ==
    /\ pc # 0
    /\ pc' = 0
    /\ UNCHANGED <<db, finished, refused, touched, recording>>

\* The API records a transfer for the instruction that is still open ...
RecordTransaction(b) ==
    /\ Stored(Key(Instruction(b)))
    /\ ~ Stored(<<"transaction", "api">>)               \* bound
    /\ db' = db \cup {Transaction(b, "api")}
    /\ recording' = recording \cup {b}
    /\ touched' = TRUE
    /\ UNCHANGED <<pc, finished, refused>>

\* ... and, later, an entry in the ledger, or an exception and an audit entry.
RecordOutcome(b) ==
    /\ b \in recording
    /\ \E table \in {"ledger", "exception"} :
          db' = db \cup {Row(table, "api", b, {})}
    /\ recording' = recording \ {b}
    /\ touched' = TRUE
    /\ UNCHANGED <<pc, finished, refused>>

Next ==
    \/ Start \/ Step \/ Finish \/ Crash
    \/ \E b \in PendingFunding : RecordTransaction(b) \/ RecordOutcome(b)

Spec == Init /\ [][Next]_vars

-------------------------------------------------------------------------------
\* Every variable has the shape its declaration promises.
TypeOK ==
    /\ \A r \in db : DOMAIN r = {"table", "id", "batch", "refs"}
    /\ pc \in 0 .. Len(Script) + 1
    /\ <<finished, refused, touched>> \in BOOLEAN \X BOOLEAN \X BOOLEAN
    /\ recording \subseteq PendingFunding

\* The script can always be run again: wherever an earlier run was killed,
\* and whatever the API wrote, the database refuses none of its statements.
NeverRefused == ~ refused

\* A run that finished, and that the API left alone, leaves what a run on
\* an untouched database leaves: nothing of an earlier run, or of what the
\* API wrote about the script's projects before, is mixed into it.
FinishedIsComplete == finished /\ pc = 0 /\ ~ touched => db = SeedRows \cup Foreign

\* No row that is not about the script's projects is lost.
OthersUntouched == Foreign \subseteq db

\* At any moment, also after a crash, what the script wrote about a project
\* is there only while the project is: an instruction, a case or an entry of
\* a ledger has no foreign key to say so.
NoOrphans ==
    \A r \in db : IsSeedById(r) /\ r.batch # Nothing => Stored(<<"batch", r.batch>>)
===============================================================================
