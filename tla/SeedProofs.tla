------------------------------ MODULE SeedProofs ------------------------------
(***************************************************************************)
(* The seed script can be killed anywhere and run again, beside an API     *)
(* that writes, whatever else is in the database: nothing is refused, and  *)
(* nothing of others is lost.                                              *)
(***************************************************************************)
EXTENDS Seed, SequenceTheorems, TLAPS

\* The rows the API writes about the script's projects.
ApiRows ==
    {Transaction(b, "api") : b \in PendingFunding}
    \cup {Row(table, "api", b, {}) : table \in {"ledger", "exception"}, b \in PendingFunding}

Clears == Len(ClearOrder)

\* What the current run wrote, and whether it still has to clear a table.
Done == {Written[i] : i \in 1 .. pc - 1 - Clears}
Uncleared(table) == \E k \in pc .. Clears : ClearOrder[k] = table

RowsInv == Foreign \subseteq db /\ db \subseteq Foreign \cup SeedRows \cup ApiRows

\* While the script runs, a row that is cleared is one this run wrote, or
\* its table's turn is still to come, unless the API just wrote it.
RunInv ==
    pc > 0 =>
        /\ Done \subseteq db
        /\ \A r \in db :
              r \in ToSet(Inserted) \/ (r \in ApiRows /\ ~ touched) =>
                  r \in Done \/ Uncleared(r.table)

ProjectInv == \A r \in db \cap SeedRows : r.batch # Nothing => Batch(r.batch) \in db

FinishedInv == finished => pc = 0 /\ (~ touched => db = SeedRows \cup Foreign)

SeedInv == TypeOK /\ ~ refused /\ RowsInv /\ RunInv /\ ProjectInv /\ FinishedInv

-------------------------------------------------------------------------------
\* The five rows of the company are written first, and none is cleared.
LEMMA ActorFacts ==
    /\ Len(Actors) = 5
    /\ Actors \in Seq(ToSet(Actors))
    /\ \A r \in ToSet(Actors) :
          /\ r.table \in {"company", "wallet", "user"}
          /\ r.batch = Nothing
          /\ r.refs \subseteq {Key(Company)}
<1>1. Len(Actors) = 5 /\ DOMAIN Actors = 1 .. 5
  BY DEF Actors
<1>2. \A i \in 1 .. 5 :
        /\ Actors[i].table \in {"company", "wallet", "user"}
        /\ Actors[i].batch = Nothing
        /\ Actors[i].refs \subseteq {Key(Company)}
  <2> TAKE i \in 1 .. 5
  <2> USE DEF Actors, Company, OfCompany, Row
  <2>1. CASE i = 1
    BY <2>1
  <2>2. CASE i = 2
    BY <2>2
  <2>3. CASE i = 3
    BY <2>3
  <2>4. CASE i = 4
    BY <2>4
  <2>5. CASE i = 5
    BY <2>5
  <2> HIDE DEF Actors, Company, OfCompany, Row
  <2> QED BY <2>1, <2>2, <2>3, <2>4, <2>5
<1>3. Actors \in Seq(ToSet(Actors))
  BY <1>1 DEF ToSet, Actors
<1> QED BY <1>1, <1>2, <1>3 DEF ToSet

\* The script writes the rows of the company, then what it inserts.
LEMMA WrittenShape ==
    /\ Written \in Seq(SeedRows)
    /\ Len(Written) = 5 + Len(Inserted)
    /\ Len(Inserted) \in Nat
    /\ \A i \in 1 .. 5 : Written[i] = Actors[i]
    /\ \A i \in 6 .. Len(Written) : Written[i] = Inserted[i - 5]
    /\ SeedRows = {Written[i] : i \in 1 .. Len(Written)}
    /\ \A i \in 1 .. 5 : Written[i] \in ToSet(Actors)
    /\ \A i \in 6 .. Len(Written) : Written[i] \in ToSet(Inserted)
<1>1. Actors \in Seq(SeedRows) /\ Inserted \in Seq(SeedRows) /\ Len(Actors) = 5
  BY ActorFacts, WrittenAssumption DEF SeedRows
<1>2. /\ Written \in Seq(SeedRows)
      /\ Len(Written) = 5 + Len(Inserted)
      /\ Len(Inserted) \in Nat
      /\ \A i \in 1 .. 5 : Written[i] = Actors[i]
      /\ \A i \in 6 .. Len(Written) : Written[i] = Inserted[i - 5]
  <2>1. Len(Inserted) \in Nat /\ Written = Actors \o Inserted
    BY <1>1 DEF Written
  <2>2. /\ Written \in Seq(SeedRows)
        /\ Len(Written) = Len(Actors) + Len(Inserted)
        /\ \A i \in 1 .. Len(Actors) + Len(Inserted) :
              Written[i] = IF i <= Len(Actors) THEN Actors[i] ELSE Inserted[i - Len(Actors)]
    BY <1>1, <2>1, ConcatProperties
  <2> QED BY <1>1, <2>1, <2>2
<1>3. DOMAIN Actors = 1 .. 5 /\ DOMAIN Inserted = 1 .. Len(Inserted)
  BY <1>1
<1>4. \A i \in 1 .. 5 : Written[i] \in ToSet(Actors)
  BY <1>2, <1>3 DEF ToSet
<1>5. \A i \in 6 .. Len(Written) : Written[i] \in ToSet(Inserted)
  BY <1>2, <1>3 DEF ToSet
<1>6. ASSUME NEW r \in SeedRows PROVE \E i \in 1 .. Len(Written) : r = Written[i]
  <2>1. CASE r \in ToSet(Actors)
    <3>1. PICK i \in 1 .. 5 : r = Actors[i]
      BY <2>1, <1>3 DEF ToSet
    <3>2. i \in 1 .. Len(Written) /\ r = Written[i]
      BY <1>2, <3>1
    <3> QED BY <3>2
  <2>2. CASE r \in ToSet(Inserted)
    <3>1. PICK i \in 1 .. Len(Inserted) : r = Inserted[i]
      BY <2>2, <1>3 DEF ToSet
    <3>2. i + 5 \in 6 .. Len(Written) /\ (i + 5) - 5 = i
      BY <1>2
    <3>3. r = Written[i + 5]
      BY <1>2, <3>1, <3>2
    <3> QED BY <3>2, <3>3
  <2> QED BY <2>1, <2>2 DEF SeedRows
<1>7. \A i \in 1 .. Len(Written) : Written[i] \in SeedRows
  BY <1>2
<1> QED BY <1>2, <1>4, <1>5, <1>6, <1>7

\* A function on 1 .. n is a sequence of n elements.
LEMMA FunctionIsSeq ==
    ASSUME NEW S, NEW n \in Nat, NEW f \in [1 .. n -> S]
    PROVE  f \in Seq(S) /\ Len(f) = n
OBVIOUS

\* The tables are cleared first, then the rows are written.
LEMMA ScriptShape ==
    /\ Clears = 11
    /\ Len(Script) = 11 + Len(Written) /\ DOMAIN Script = 1 .. Len(Script)
    /\ \A k \in 1 .. 11 : Script[k] = Statement("delete", ClearOrder[k])
    /\ \A i \in 1 .. 5 : Script[11 + i] = Statement("upsert", Written[i])
    /\ \A i \in 6 .. Len(Written) : Script[11 + i] = Statement("create", Written[i])
<1> DEFINE deletes == Each(LAMBDA t : Statement("delete", t), ClearOrder)
           upserts == Each(LAMBDA r : Statement("upsert", r), Actors)
           creates == Each(LAMBDA r : Statement("create", r), Inserted)
           What == ToSet(ClearOrder) \cup SeedRows
           All == {Statement(do, what) : do \in {"delete", "upsert", "create"}, what \in What}
<1>1. /\ Actors \in Seq(SeedRows) /\ Inserted \in Seq(SeedRows) /\ Len(Actors) = 5
      /\ ClearOrder \in Seq(ToSet(ClearOrder)) /\ Len(ClearOrder) = 11
  BY ActorFacts, WrittenAssumption DEF SeedRows, ClearOrder, ToSet
<1>2. /\ deletes \in Seq(All) /\ Len(deletes) = 11
      /\ \A k \in 1 .. 11 : deletes[k] = Statement("delete", ClearOrder[k])
  <2>1. /\ 11 \in Nat /\ DOMAIN ClearOrder = 1 .. 11
        /\ \A k \in 1 .. 11 : ClearOrder[k] \in What
    BY <1>1, LenProperties
  <2>2. deletes = [k \in 1 .. 11 |-> Statement("delete", ClearOrder[k])]
    BY <2>1 DEF Each
  <2>3. \A k \in 1 .. 11 : Statement("delete", ClearOrder[k]) \in All
    BY <2>1
  <2> HIDE DEF All, deletes
  <2>4. deletes \in [1 .. 11 -> All]
    BY <2>2, <2>3
  <2>5. deletes \in Seq(All) /\ Len(deletes) = 11
    BY <2>1, <2>4, FunctionIsSeq
  <2> QED BY <2>2, <2>5
<1>3. /\ upserts \in Seq(All) /\ Len(upserts) = 5
      /\ \A k \in 1 .. 5 : upserts[k] = Statement("upsert", Actors[k])
  <2>1. /\ 5 \in Nat /\ DOMAIN Actors = 1 .. 5
        /\ \A k \in 1 .. 5 : Actors[k] \in What
    BY <1>1, LenProperties
  <2>2. upserts = [k \in 1 .. 5 |-> Statement("upsert", Actors[k])]
    BY <2>1 DEF Each
  <2>3. \A k \in 1 .. 5 : Statement("upsert", Actors[k]) \in All
    BY <2>1
  <2> HIDE DEF All, upserts
  <2>4. upserts \in [1 .. 5 -> All]
    BY <2>2, <2>3
  <2>5. upserts \in Seq(All) /\ Len(upserts) = 5
    BY <2>1, <2>4, FunctionIsSeq
  <2> QED BY <2>2, <2>5
<1>4. /\ creates \in Seq(All) /\ Len(creates) = Len(Inserted)
      /\ \A k \in 1 .. Len(Inserted) : creates[k] = Statement("create", Inserted[k])
  <2>1. /\ Len(Inserted) \in Nat /\ DOMAIN Inserted = 1 .. Len(Inserted)
        /\ \A k \in 1 .. Len(Inserted) : Inserted[k] \in What
    BY <1>1, LenProperties
  <2>2. creates = [k \in 1 .. Len(Inserted) |-> Statement("create", Inserted[k])]
    BY <2>1 DEF Each
  <2>3. \A k \in 1 .. Len(Inserted) : Statement("create", Inserted[k]) \in All
    BY <2>1
  <2> HIDE DEF All, creates
  <2>4. creates \in [1 .. Len(Inserted) -> All]
    BY <2>2, <2>3
  <2>5. creates \in Seq(All) /\ Len(creates) = Len(Inserted)
    BY <2>1, <2>4, FunctionIsSeq
  <2> QED BY <2>2, <2>5
<1> DEFINE first == deletes \o upserts
<1>5. Script = first \o creates
  BY DEF Script
<1> HIDE DEF deletes, upserts, creates, All
<1>6. /\ first \in Seq(All) /\ Len(first) = 16
      /\ \A i \in 1 .. 16 : first[i] = IF i <= 11 THEN deletes[i] ELSE upserts[i - 11]
  <2>1. /\ first \in Seq(All) /\ Len(first) = Len(deletes) + Len(upserts)
        /\ \A i \in 1 .. Len(deletes) + Len(upserts) :
              first[i] = IF i <= Len(deletes) THEN deletes[i] ELSE upserts[i - Len(deletes)]
    BY <1>2, <1>3, ConcatProperties
  <2> HIDE DEF first
  <2> QED BY <1>2, <1>3, <2>1
<1> HIDE DEF first
<1>7. /\ Script \in Seq(All) /\ Len(Script) = 16 + Len(Inserted)
      /\ DOMAIN Script = 1 .. Len(Script)
      /\ \A i \in 1 .. 16 + Len(Inserted) :
            Script[i] = IF i <= 16 THEN first[i] ELSE creates[i - 16]
  <2>1. /\ Script \in Seq(All) /\ Len(Script) = Len(first) + Len(creates)
        /\ \A i \in 1 .. Len(first) + Len(creates) :
              Script[i] = IF i <= Len(first) THEN first[i] ELSE creates[i - Len(first)]
    <3>1. first \in Seq(All) /\ creates \in Seq(All)
      BY <1>4, <1>6
    <3> QED BY <3>1, <1>5, ConcatProperties
  <2>2. DOMAIN Script = 1 .. Len(Script)
    BY <2>1, LenProperties
  <2> QED BY <1>4, <1>6, <2>1, <2>2
<1>8. \A k \in 1 .. 11 : Script[k] = deletes[k]
  BY <1>1, <1>6, <1>7
<1>9. \A i \in 1 .. 5 : Script[11 + i] = upserts[i]
  BY <1>1, <1>6, <1>7
<1>10. \A i \in 6 .. 5 + Len(Inserted) : Script[11 + i] = creates[i - 5]
  BY <1>1, <1>7
<1>11. \A i \in 1 .. 5 : Written[i] = Actors[i]
  BY WrittenShape
<1>12. \A i \in 6 .. 5 + Len(Inserted) : Written[i] = Inserted[i - 5]
  BY WrittenShape
<1>13. \A i \in 6 .. 5 + Len(Inserted) : i - 5 \in 1 .. Len(Inserted)
  BY <1>1
<1>14. \A i \in 6 .. 5 + Len(Inserted) : Script[11 + i] = Statement("create", Written[i])
  BY <1>4, <1>10, <1>12, <1>13
<1>15. Len(Script) = 11 + Len(Written) /\ Len(Written) = 5 + Len(Inserted)
  BY <1>7, <1>1, WrittenShape
<1> QED BY <1>1, <1>2, <1>3, <1>7, <1>8, <1>9, <1>11, <1>14, <1>15 DEF Clears

\* The order of the deletions.
LEMMA ClearFacts ==
    /\ DOMAIN ClearOrder = 1 .. 11
    /\ \A k \in 1 .. 11 : ClearOrder[k] = "batch" <=> k = 10
    /\ \A k \in 1 .. 11 : ClearOrder[k] = "beneficiary" <=> k = 11
    /\ \A t \in {"transaction", "ledger", "exception"} : \E k \in 1 .. 11 : ClearOrder[k] = t
    /\ \A k \in 1 .. 11 : ClearOrder[k] \notin {"company", "wallet", "user"}
<1>1. DOMAIN ClearOrder = 1 .. 11
  BY DEF ClearOrder
<1>2. \A k \in 1 .. 11 :
        k = 1 \/ k = 2 \/ k = 3 \/ k = 4 \/ k = 5 \/ k = 6 \/ k = 7 \/ k = 8 \/ k = 9
        \/ k = 10 \/ k = 11
  OBVIOUS
<1>3. /\ \A k \in 1 .. 11 : ClearOrder[k] = "batch" <=> k = 10
      /\ \A k \in 1 .. 11 : ClearOrder[k] = "beneficiary" <=> k = 11
      /\ \A k \in 1 .. 11 : ClearOrder[k] \notin {"company", "wallet", "user"}
  BY <1>2 DEF ClearOrder
<1>4. ClearOrder[6] = "transaction" /\ ClearOrder[1] = "ledger" /\ ClearOrder[3] = "exception"
  BY DEF ClearOrder
<1> QED BY <1>1, <1>3, <1>4

-------------------------------------------------------------------------------
\* The project that is still to be funded is one of the script's.
LEMMA PendingFacts == PendingFunding \subseteq Batches /\ Nothing \notin Batches
<1>1. PendingFunding = {"mx_awaiting_funding"}
  BY DEF PendingFunding, PendingFundingBatches, ToSet
<1>2. Batches = {BatchSpecs[i] : i \in 1 .. 8}
  BY DEF Batches, ToSet, BatchSpecs
<1>3. BatchSpecs[5] = "mx_awaiting_funding"
  BY DEF BatchSpecs
<1>4. \A i \in 1 .. 8 : BatchSpecs[i] # Nothing
  <2> USE DEF BatchSpecs, Nothing
  <2>1. BatchSpecs[1] # Nothing /\ BatchSpecs[2] # Nothing
    OBVIOUS
  <2>2. BatchSpecs[3] # Nothing /\ BatchSpecs[4] # Nothing
    OBVIOUS
  <2>3. BatchSpecs[5] # Nothing /\ BatchSpecs[6] # Nothing
    OBVIOUS
  <2>4. BatchSpecs[7] # Nothing /\ BatchSpecs[8] # Nothing
    OBVIOUS
  <2> HIDE DEF BatchSpecs, Nothing
  <2> QED BY <2>1, <2>2, <2>3, <2>4
<1> QED BY <1>1, <1>2, <1>3, <1>4

\* What the rows of the script are like.
LEMMA SeedRowFacts ==
    ASSUME NEW r \in SeedRows
    PROVE  /\ DOMAIN r = {"table", "id", "batch", "refs"}
           /\ r.id # "api"
           /\ r.refs \subseteq {Key(s) : s \in SeedRows}
           /\ r.batch # Nothing => r.batch \in Batches /\ Batch(r.batch) \in SeedRows
           /\ (\E n \in People : Key(Beneficiary(n)) \in r.refs) => r.table = "payout"
<1>1. PICK i \in 1 .. Len(Written) : r = Written[i]
  BY WrittenShape
<1>2. i \in DOMAIN Written
  BY WrittenShape
<1>3. \A j \in 1 .. i : Written[j] \in SeedRows
  BY WrittenShape
<1>4. Before(i) \subseteq {Key(s) : s \in SeedRows}
  BY <1>3 DEF Before
<1> QED BY <1>1, <1>2, <1>3, <1>4, WrittenAssumption

\* Two rows of the script with the same key are one.
LEMMA SeedKeys ==
    ASSUME NEW r \in SeedRows, NEW s \in SeedRows, Key(r) = Key(s)
    PROVE  r = s
<1>1. PICK i \in 1 .. Len(Written) : r = Written[i]
  BY WrittenShape
<1>2. PICK j \in 1 .. Len(Written) : s = Written[j]
  BY WrittenShape
<1>3. i \in DOMAIN Written /\ j \in DOMAIN Written
  BY WrittenShape
<1>4. i = j
  BY <1>1, <1>2, <1>3, WrittenAssumption
<1> QED BY <1>1, <1>2, <1>4

\* The rows of the API: their ids are the API's, and only transactions point
\* to a row, the instruction of their project.
LEMMA ApiRowFacts ==
    ASSUME NEW r \in ApiRows
    PROVE  /\ DOMAIN r = {"table", "id", "batch", "refs"}
           /\ r.id = "api"
           /\ r.batch \in PendingFunding
           /\ r.table \in {"transaction", "ledger", "exception"}
           /\ \A key \in r.refs : key[1] = "instruction"
BY DEF ApiRows, Transaction, Instruction, Row, Key

\* A row of the script is not mistaken for one of the API or of others.
LEMMA SameKey ==
    ASSUME NEW r \in Foreign \cup SeedRows \cup ApiRows, NEW s \in SeedRows, Key(r) = Key(s)
    PROVE  r = s
<1>1. CASE r \in Foreign
  BY <1>1, ForeignAssumption
<1>2. CASE r \in SeedRows
  BY <1>2, SeedKeys
<1>3. CASE r \in ApiRows
  BY <1>3, ApiRowFacts, SeedRowFacts DEF Key
<1> QED BY <1>1, <1>2, <1>3

\* Others' rows do not point to the rows of the script or of the API.
LEMMA ForeignPoints ==
    ASSUME NEW r \in Foreign, NEW s \in SeedRows \cup ApiRows
    PROVE  Key(s) \notin r.refs
<1> SUFFICES ASSUME NEW f \in Foreign, Key(s) = Key(f) PROVE FALSE
  BY ForeignAssumption
<1>1. CASE s \in SeedRows
  BY <1>1, ForeignAssumption
<1>2. CASE s \in ApiRows
  BY <1>2, ApiRowFacts, ForeignAssumption DEF Key
<1> QED BY <1>1, <1>2

\* A deletion looks for what the script inserted and what the API wrote about
\* its projects, and for nothing else.
LEMMA Sought ==
    /\ \A r \in Foreign \cup ToSet(Actors) : r.table \in ToSet(ClearOrder) => ~ IsSeed(r)
    /\ \A r \in ToSet(Inserted) \cup ApiRows : IsSeed(r) /\ r.table \in ToSet(ClearOrder)
<1>1. ASSUME NEW r \in Foreign PROVE ~ IsSeed(r)
  <2>1. CASE r.table = "beneficiary" /\ r.id \in People
    <3>1. Beneficiary(r.id) \in SeedRows /\ Key(Beneficiary(r.id)) = Key(r)
      BY <2>1, WrittenAssumption DEF Beneficiary, OfCompany, Row, Key
    <3> QED BY <3>1, ForeignAssumption
  <2> QED BY <2>1, ForeignAssumption DEF IsSeed
<1>2. ASSUME NEW r \in ToSet(Actors) PROVE r.table \notin ToSet(ClearOrder)
  BY ActorFacts, ClearFacts DEF ToSet
<1>3. ASSUME NEW r \in ToSet(Inserted) PROVE IsSeed(r) /\ r.table \in ToSet(ClearOrder)
  BY WrittenAssumption DEF IsSeed
<1>4. ASSUME NEW r \in ApiRows PROVE IsSeed(r) /\ r.table \in ToSet(ClearOrder)
  <2>1. r.batch \in Batches /\ r.table \in {"transaction", "ledger", "exception"}
    BY ApiRowFacts, PendingFacts
  <2> QED BY <2>1, ClearFacts DEF IsSeed, ToSet
<1> QED BY <1>1, <1>2, <1>3, <1>4
-------------------------------------------------------------------------------
\* The rows a deletion looks for, and those it takes along.
Targets(table) == {r \in db : r.table = table /\ IsSeed(r)}
Swept(table) ==
    LET also == Targets(table) \cup Dependents(Targets(table))
    IN  also \cup Dependents(also)

\* A deletion removes only what was inserted or written by the API, and what
\* points to nothing but the company goes only with its own table.
LEMMA SweptFacts ==
    ASSUME RowsInv, NEW table \in ToSet(ClearOrder)
    PROVE  /\ Targets(table) \subseteq Swept(table)
           /\ Swept(table) \subseteq ToSet(Inserted) \cup ApiRows
           /\ \A r \in Swept(table) : r.refs \subseteq {Key(Company)} => r \in Targets(table)
<1> DEFINE Ours == ToSet(Inserted) \cup ApiRows
           also == Targets(table) \cup Dependents(Targets(table))
<1>1. Targets(table) \subseteq Ours
  BY Sought DEF Targets, RowsInv, SeedRows
<1>2. Company \in SeedRows /\ Company \notin Ours
  <2>1. Company \in ToSet(Actors) /\ Company.table = "company"
    BY DEF Actors, ToSet, Company, Row
  <2>2. "company" \notin ToSet(ClearOrder)
    BY ClearFacts DEF ToSet
  <2> QED BY <2>1, <2>2, Sought DEF SeedRows
<1>3. ASSUME NEW S \in SUBSET Ours, NEW r \in Dependents(S)
      PROVE  r \in Ours /\ ~ r.refs \subseteq {Key(Company)}
  <2>1. PICK s \in S : Key(s) \in r.refs
    BY <1>3 DEF Dependents
  <2>2. s \in SeedRows \cup ApiRows
    BY DEF SeedRows
  <2>3. s # Company
    BY <1>2, <2>1
  <2>4. Key(s) # Key(Company)
    BY <1>2, <2>2, <2>3, SameKey
  <2>5. ~ r.refs \subseteq {Key(Company)}
    BY <2>1, <2>4
  <2>6. r \notin Foreign
    BY <2>1, <2>2, ForeignPoints
  <2>7. r \notin ToSet(Actors)
    BY <2>5, ActorFacts
  <2> QED BY <2>5, <2>6, <2>7 DEF Dependents, RowsInv, SeedRows
<1> HIDE DEF Ours
<1>4. also \subseteq Ours
  BY <1>1, <1>3
<1>5. \A r \in also : r.refs \subseteq {Key(Company)} => r \in Targets(table)
  BY <1>1, <1>3
<1>6. Dependents(also) \subseteq Ours
  BY <1>3, <1>4
<1>7. \A r \in Dependents(also) : ~ r.refs \subseteq {Key(Company)}
  BY <1>3, <1>4
<1>8. Swept(table) = also \cup Dependents(also)
  BY DEF Swept
<1> QED BY <1>4, <1>5, <1>6, <1>7, <1>8 DEF Ours

\* When the people's turn has come, nobody is paid any more.
LEMMA PeopleAreFree ==
    ASSUME SeedInv, pc = 11
    PROVE  Dependents(Targets("beneficiary")) = {}
<1> SUFFICES ASSUME NEW r \in db, NEW s \in Targets("beneficiary"), Key(s) \in r.refs
             PROVE  FALSE
  BY DEF Dependents
<1>1. s \in ToSet(Inserted) \cup ApiRows
  BY SweptFacts, ClearFacts DEF SeedInv, ToSet
<1>2. s.table = "beneficiary" /\ s.id \in People
  BY DEF Targets, IsSeed
<1>3. Key(s) = Key(Beneficiary(s.id))
  BY <1>2 DEF Beneficiary, OfCompany, Row, Key
<1>4. Key(s)[1] = "beneficiary"
  BY <1>2 DEF Key
<1>5. r \in SeedRows
  BY <1>1, <1>4, ForeignPoints, ApiRowFacts DEF SeedInv, RowsInv, SeedRows
<1>6. r.table = "payout"
  BY <1>2, <1>3, <1>5, SeedRowFacts
<1>7. r \in ToSet(Inserted)
  BY <1>5, <1>6, ActorFacts DEF SeedRows
<1>8. Done = {}
  BY ScriptShape DEF Done
<1>9. Uncleared("payout")
  BY <1>6, <1>7, <1>8 DEF SeedInv, RunInv
<1>10. ClearOrder[11] = "payout"
  BY <1>9, ScriptShape DEF Uncleared
<1> QED BY <1>10, ClearFacts

\* A deletion empties its table of the script's rows.
LEMMA DeleteKeeps ==
    ASSUME SeedInv, pc \in 1 .. 11, Delete(ClearOrder[pc]),
           UNCHANGED <<finished, touched, recording>>
    PROVE  SeedInv'
<1> DEFINE table == ClearOrder[pc]
<1>1. table \in ToSet(ClearOrder)
  BY ClearFacts DEF ToSet
<1>2. table = "beneficiary" => Dependents(Targets(table)) = {}
  BY ClearFacts, PeopleAreFree
<1>3. refused' = refused /\ pc' = pc + 1 /\ db' = db \ Swept(table)
  BY <1>2 DEF Delete, Targets, Swept
<1>4. /\ Targets(table) \subseteq Swept(table)
      /\ Swept(table) \subseteq ToSet(Inserted) \cup ApiRows
      /\ \A r \in Swept(table) : r.refs \subseteq {Key(Company)} => r \in Targets(table)
  BY <1>1, SweptFacts DEF SeedInv
<1> HIDE DEF table
<1>5. ~ finished
  BY DEF SeedInv, FinishedInv
<1>6. Len(Script) \in Nat /\ Len(Script) >= 11
  BY ScriptShape, WrittenShape
<1>7. TypeOK'
  BY <1>3, <1>6 DEF SeedInv, TypeOK
<1>8. RowsInv'
  <2>1. ASSUME NEW r \in Foreign PROVE r \notin ToSet(Inserted) \cup ApiRows
    BY ForeignAssumption, ApiRowFacts DEF SeedRows
  <2> QED BY <1>3, <1>4, <2>1 DEF SeedInv, RowsInv
<1>9. Done = {} /\ Done' = {}
  BY <1>3, ScriptShape DEF Done
<1>10. RunInv'
  <2> SUFFICES ASSUME NEW r \in db', r \in ToSet(Inserted) \/ (r \in ApiRows /\ ~ touched')
               PROVE  Uncleared(r.table)'
    BY <1>9 DEF RunInv
  <2>1. Uncleared(r.table)
    BY <1>3, <1>9 DEF SeedInv, RunInv
  <2>2. PICK k \in pc .. Clears : ClearOrder[k] = r.table
    BY <2>1 DEF Uncleared
  <2>3. IsSeed(r)
    BY Sought
  <2>4. k # pc
    BY <1>3, <1>4, <2>2, <2>3 DEF Targets, table
  <2>5. k \in pc' .. Clears
    BY <1>3, <2>4, ScriptShape
  <2> QED BY <2>2, <2>5 DEF Uncleared, Clears
<1>11. ProjectInv'
  <2> SUFFICES ASSUME NEW r \in db' \cap SeedRows, r.batch # Nothing
               PROVE  Batch(r.batch) \in db'
    BY DEF ProjectInv
  <2>1. Batch(r.batch) \in db /\ r \in db
    BY <1>3 DEF SeedInv, ProjectInv
  <2>2. Batch(r.batch).refs = {Key(Company)} /\ Batch(r.batch).table = "batch"
    BY DEF Batch, Row
  <2>3. CASE table # "batch"
    BY <1>3, <1>4, <2>1, <2>2, <2>3 DEF Targets
  <2>4. CASE table = "batch"
    <3>1. pc = 10
      BY <2>4, ClearFacts DEF table
    <3>2. r \in ToSet(Inserted)
      BY ActorFacts DEF SeedRows
    <3>3. PICK k \in pc .. Clears : ClearOrder[k] = r.table
      BY <1>9, <2>1, <3>2 DEF SeedInv, RunInv, Uncleared
    <3>4. k = 10 \/ k = 11
      BY <3>1, <3>3, ScriptShape
    <3>5. r.table = "batch" \/ r.table = "beneficiary"
      BY <3>3, <3>4, ClearFacts
    <3>6. r.table = "batch"
      BY <3>2, <3>5, WrittenAssumption
    <3>7. r \in Targets(table)
      BY <2>1, <2>4, <3>2, <3>6, Sought DEF Targets
    <3> QED BY <1>3, <1>4, <3>7
  <2> QED BY <2>3, <2>4
<1>12. ~ refused' /\ FinishedInv'
  BY <1>3, <1>5 DEF SeedInv, FinishedInv
<1> QED BY <1>7, <1>8, <1>10, <1>11, <1>12 DEF SeedInv

\* A row that is written joins the others: no other row has its key.
LEMMA WriteKeeps ==
    ASSUME SeedInv, NEW i \in 1 .. Len(Written), pc = 11 + i,
           db' = db \cup {Written[i]}, refused' = refused, pc' = pc + 1,
           UNCHANGED <<finished, touched, recording>>
    PROVE  SeedInv'
<1> DEFINE row == Written[i]
<1>1. pc - 1 - Clears = i - 1 /\ (pc - 1 - Clears)' = i
  BY ScriptShape DEF Clears
<1>2. row \in SeedRows
  BY WrittenShape
<1>3. Done' = Done \cup {row} /\ Done \subseteq db
  <2>1. Done = {Written[j] : j \in 1 .. i - 1} /\ Done' = {Written[j] : j \in 1 .. i}
    BY <1>1 DEF Done
  <2>2. 1 .. i = (1 .. i - 1) \cup {i}
    OBVIOUS
  <2> QED BY <2>1, <2>2 DEF SeedInv, RunInv
<1>4. \A t : ~ Uncleared(t)
  BY ScriptShape DEF Uncleared
<1>5. TypeOK'
  <2>1. Len(Script) = 11 + Len(Written) /\ Len(Written) \in Nat
    BY ScriptShape, WrittenShape
  <2>2. DOMAIN row = {"table", "id", "batch", "refs"}
    BY <1>2, SeedRowFacts
  <2>3. pc' \in 0 .. Len(Script) + 1
    BY <2>1
  <2> QED BY <2>2, <2>3 DEF SeedInv, TypeOK
<1>6. RowsInv'
  BY <1>2 DEF SeedInv, RowsInv
<1> HIDE DEF row
<1>7. RunInv'
  BY <1>3, <1>4 DEF SeedInv, RunInv, row
<1>8. ProjectInv'
  <2>1. row.batch # Nothing => Batch(row.batch) \in {Written[j] : j \in 1 .. i}
    BY WrittenShape, WrittenAssumption DEF row
  <2>2. {Written[j] : j \in 1 .. i} = Done'
    BY <1>1 DEF Done
  <2> QED BY <1>3, <2>1, <2>2 DEF SeedInv, ProjectInv, row
<1>9. ~ refused' /\ FinishedInv'
  BY DEF SeedInv, FinishedInv
<1> QED BY <1>5, <1>6, <1>7, <1>8, <1>9 DEF SeedInv

\* A row of the company that is there already is the one to be written.
LEMMA UpsertKeeps ==
    ASSUME SeedInv, NEW i \in 1 .. 5, pc = 11 + i, Upsert(Written[i]),
           UNCHANGED <<finished, touched, recording>>
    PROVE  SeedInv'
<1>1. i \in 1 .. Len(Written) /\ Written[i] \in SeedRows
  BY WrittenShape
<1>2. \A r \in db : Key(r) = Key(Written[i]) => r = Written[i]
  BY <1>1, SameKey DEF SeedInv, RowsInv
<1>3. db' = db \cup {Written[i]}
  BY <1>2 DEF Upsert, Stored
<1> QED BY <1>1, <1>3, WriteKeeps DEF Upsert

\* A row that is inserted is new, and what it points to is there.
LEMMA CreateKeeps ==
    ASSUME SeedInv, NEW i \in 6 .. Len(Written), pc = 11 + i, Create(Written[i]),
           UNCHANGED <<finished, touched, recording>>
    PROVE  SeedInv'
<1> DEFINE row == Written[i]
<1>1. /\ i \in 1 .. Len(Written) /\ i \in DOMAIN Written
      /\ row \in SeedRows /\ row \in ToSet(Inserted)
  BY WrittenShape
<1>2. Done = {Written[j] : j \in 1 .. i - 1} /\ Done \subseteq db
  BY ScriptShape DEF Done, SeedInv, RunInv
<1>3. ~ Stored(Key(row))
  <2> SUFFICES ASSUME NEW r \in db, Key(r) = Key(row) PROVE FALSE
    BY DEF Stored
  <2>1. r = row
    BY <1>1, SameKey DEF SeedInv, RowsInv
  <2>2. ~ Uncleared(r.table)
    BY ScriptShape DEF Uncleared
  <2>3. r \in Done
    BY <1>1, <2>1, <2>2 DEF SeedInv, RunInv
  <2>4. PICK j \in 1 .. i - 1 : row = Written[j]
    BY <1>2, <2>1, <2>3
  <2>5. j \in 1 .. Len(Written) /\ j # i
    BY WrittenShape
  <2>6. j \in DOMAIN Written
    BY <2>5, WrittenShape, LenProperties
  <2> QED BY <1>1, <2>4, <2>5, <2>6, WrittenAssumption
<1>4. \A key \in row.refs : Stored(key)
  BY <1>1, <1>2, WrittenAssumption DEF Before, Stored
<1>5. db' = db \cup {row} /\ refused' = refused /\ pc' = pc + 1
  BY <1>3, <1>4 DEF Create
<1> QED BY <1>1, <1>5, WriteKeeps

-------------------------------------------------------------------------------
\* A run starts with everything that is cleared still to be cleared.
LEMMA StartKeeps == SeedInv /\ Start => SeedInv'
<1> SUFFICES ASSUME SeedInv, Start PROVE SeedInv'
  OBVIOUS
<1>1. pc' = 1 /\ finished' = FALSE /\ touched' = FALSE /\ UNCHANGED <<db, refused, recording>>
  BY DEF Start
<1>2. Len(Script) \in Nat /\ Len(Script) >= 11
  BY ScriptShape, WrittenShape
<1>3. TypeOK'
  <2>1. pc' \in 0 .. Len(Script) + 1
    BY <1>1, <1>2
  <2>2. <<finished, refused, touched>>' \in BOOLEAN \X BOOLEAN \X BOOLEAN
    BY <1>1 DEF SeedInv, TypeOK
  <2> QED BY <1>1, <2>1, <2>2 DEF SeedInv, TypeOK
<1>4. Done' = {}
  BY <1>1, ScriptShape DEF Done, Clears
<1>5. RunInv'
  <2> SUFFICES ASSUME NEW r \in db', r \in ToSet(Inserted) \cup ApiRows
               PROVE  Uncleared(r.table)'
    BY <1>4 DEF RunInv
  <2>1. r.table \in ToSet(ClearOrder)
    BY Sought
  <2>2. PICK k \in 1 .. 11 : ClearOrder[k] = r.table
    BY <2>1, ClearFacts DEF ToSet
  <2> QED BY <1>1, <2>2, ScriptShape DEF Uncleared, Clears
<1>6. RowsInv' /\ ProjectInv' /\ FinishedInv' /\ ~ refused'
  BY <1>1 DEF SeedInv, RowsInv, ProjectInv, FinishedInv
<1> QED BY <1>3, <1>5, <1>6 DEF SeedInv

\* Each statement of the script succeeds.
LEMMA StepKeeps == SeedInv /\ Step => SeedInv'
<1> SUFFICES ASSUME SeedInv, Step PROVE SeedInv'
  OBVIOUS
<1>1. pc \in 1 .. 11 + Len(Written) /\ UNCHANGED <<finished, touched, recording>>
  BY ScriptShape DEF Step
<1>2. CASE pc \in 1 .. 11
  <2>1. Script[pc] = Statement("delete", ClearOrder[pc])
    BY <1>2, ScriptShape
  <2>2. Delete(ClearOrder[pc])
    BY <2>1 DEF Step, Statement
  <2> QED BY <1>1, <1>2, <2>2, DeleteKeeps
<1>3. CASE pc \in 12 .. 16
  <2>1. PICK i \in 1 .. 5 : pc = 11 + i
    <3>1. pc - 11 \in 1 .. 5 /\ pc = 11 + (pc - 11)
      BY <1>3
    <3> QED BY <3>1
  <2>2. Script[pc] = Statement("upsert", Written[i])
    BY <2>1, ScriptShape
  <2>3. Upsert(Written[i])
    BY <2>2 DEF Step, Statement
  <2> QED BY <1>1, <2>1, <2>3, UpsertKeeps
<1>4. CASE pc \in 17 .. 11 + Len(Written)
  <2>1. PICK i \in 6 .. Len(Written) : pc = 11 + i
    <3>1. pc - 11 \in 6 .. Len(Written) /\ pc = 11 + (pc - 11)
      BY <1>4, WrittenShape
    <3> QED BY <3>1
  <2>2. Script[pc] = Statement("create", Written[i])
    BY <2>1, ScriptShape
  <2>3. Create(Written[i])
    BY <2>2 DEF Step, Statement
  <2> QED BY <1>1, <2>1, <2>3, CreateKeeps
<1>5. pc \in 1 .. 11 \/ pc \in 12 .. 16 \/ pc \in 17 .. 11 + Len(Written)
  BY <1>1, WrittenShape
<1> QED BY <1>2, <1>3, <1>4, <1>5

\* At its end the run wrote everything, and left nothing else about its projects.
LEMMA FinishKeeps == SeedInv /\ Finish => SeedInv'
<1> SUFFICES ASSUME SeedInv, Finish PROVE SeedInv'
  OBVIOUS
<1>1. /\ pc = 12 + Len(Written) /\ pc > 0 /\ pc' = 0
      /\ finished' = TRUE /\ UNCHANGED <<db, refused, touched, recording>>
  BY ScriptShape, WrittenShape DEF Finish
<1>2. Done = SeedRows
  <2>1. pc - 1 - Clears = Len(Written)
    BY <1>1, ScriptShape, WrittenShape
  <2> QED BY <2>1, WrittenShape DEF Done
<1>3. \A t : ~ Uncleared(t)
  BY <1>1, ScriptShape, WrittenShape DEF Uncleared
<1>4. Foreign \subseteq db /\ SeedRows \subseteq db
  BY <1>1, <1>2 DEF SeedInv, RunInv, RowsInv
<1>5. ~ touched => db \subseteq SeedRows \cup Foreign
  BY <1>1, <1>2, <1>3 DEF SeedInv, RunInv, RowsInv
<1>6. FinishedInv'
  BY <1>1, <1>4, <1>5 DEF FinishedInv
<1>7. Len(Script) \in Nat
  BY ScriptShape, WrittenShape
<1>8. TypeOK'
  <2>1. pc' \in 0 .. Len(Script) + 1
    BY <1>1, <1>7
  <2>2. <<finished, refused, touched>>' \in BOOLEAN \X BOOLEAN \X BOOLEAN
    BY <1>1 DEF SeedInv, TypeOK
  <2> QED BY <1>1, <2>1, <2>2 DEF Finish, SeedInv, TypeOK
<1>9. RowsInv' /\ RunInv' /\ ProjectInv' /\ ~ refused'
  BY <1>1 DEF SeedInv, RowsInv, RunInv, ProjectInv
<1> QED BY <1>6, <1>8, <1>9 DEF SeedInv

\* A run that was killed did not finish.
LEMMA CrashKeeps == SeedInv /\ Crash => SeedInv'
<1> SUFFICES ASSUME SeedInv, Crash PROVE SeedInv'
  OBVIOUS
<1>1. ~ finished /\ pc' = 0 /\ UNCHANGED <<db, finished, refused, touched, recording>>
  BY DEF Crash, SeedInv, FinishedInv
<1>2. Len(Script) \in Nat
  BY ScriptShape, WrittenShape
<1> QED BY <1>1, <1>2 DEF SeedInv, TypeOK, RowsInv, RunInv, ProjectInv, FinishedInv

\* What the API writes is no row of the script.
LEMMA ApiKeeps ==
    ASSUME SeedInv, NEW r \in ApiRows, db' = db \cup {r},
           recording' \subseteq PendingFunding, touched' = TRUE,
           UNCHANGED <<pc, finished, refused>>
    PROVE  SeedInv'
<1>1. DOMAIN r = {"table", "id", "batch", "refs"} /\ r \notin SeedRows
  BY ApiRowFacts, SeedRowFacts
<1>2. r \notin ToSet(Inserted)
  BY <1>1 DEF SeedRows
<1>3. Done' = Done /\ \A t : Uncleared(t)' <=> Uncleared(t)
  BY DEF Done, Uncleared, Clears
<1>4. TypeOK' /\ ~ refused'
  BY <1>1 DEF SeedInv, TypeOK
<1>5. RowsInv' /\ FinishedInv'
  BY DEF SeedInv, RowsInv, FinishedInv
<1>6. RunInv'
  BY <1>2, <1>3 DEF SeedInv, RunInv
<1>7. ProjectInv'
  BY <1>1 DEF SeedInv, ProjectInv
<1> QED BY <1>4, <1>5, <1>6, <1>7 DEF SeedInv

\* Every state of the script and of the database around it.
THEOREM SeedInvariant == Spec => []SeedInv
<1>1. Init => SeedInv
  <2> SUFFICES ASSUME Init PROVE SeedInv
    OBVIOUS
  <2>1. Len(Script) \in Nat
    BY ScriptShape, WrittenShape
  <2>2. \A r \in Foreign : r \notin SeedRows /\ DOMAIN r = {"table", "id", "batch", "refs"}
    BY ForeignAssumption
  <2>3. TypeOK
    <3>1. <<finished, refused, touched>> \in BOOLEAN \X BOOLEAN \X BOOLEAN
      BY DEF Init
    <3> QED BY <2>1, <2>2, <3>1 DEF Init, TypeOK
  <2>4. ~ refused /\ RowsInv /\ RunInv /\ ProjectInv /\ FinishedInv
    BY <2>2 DEF Init, RowsInv, RunInv, ProjectInv, FinishedInv
  <2> QED BY <2>3, <2>4 DEF SeedInv
<1>2. SeedInv /\ [Next]_vars => SeedInv'
  <2> SUFFICES ASSUME SeedInv, [Next]_vars PROVE SeedInv'
    OBVIOUS
  <2>1. CASE Start \/ Step \/ Finish \/ Crash
    BY <2>1, StartKeeps, StepKeeps, FinishKeeps, CrashKeeps
  <2>2. ASSUME NEW b \in PendingFunding, RecordTransaction(b)
        PROVE  SeedInv'
    <3>1. Transaction(b, "api") \in ApiRows
      BY DEF ApiRows
    <3>2. recording' \subseteq PendingFunding
      BY <2>2 DEF RecordTransaction, SeedInv, TypeOK
    <3> QED BY <2>2, <3>1, <3>2, ApiKeeps DEF RecordTransaction
  <2>3. ASSUME NEW b \in PendingFunding, RecordOutcome(b)
        PROVE  SeedInv'
    <3>1. PICK table \in {"ledger", "exception"} : db' = db \cup {Row(table, "api", b, {})}
      BY <2>3 DEF RecordOutcome
    <3>2. Row(table, "api", b, {}) \in ApiRows
      BY DEF ApiRows
    <3>3. recording' \subseteq PendingFunding
      BY <2>3 DEF RecordOutcome, SeedInv, TypeOK
    <3> QED BY <2>3, <3>1, <3>2, <3>3, ApiKeeps DEF RecordOutcome
  <2>4. CASE UNCHANGED vars
    <3>1. SeedInv' <=> SeedInv
      BY <2>4 DEF vars, SeedInv, TypeOK, RowsInv, RunInv, ProjectInv, FinishedInv,
                  Done, Uncleared, Clears
    <3> QED BY <3>1
  <2> QED BY <2>1, <2>2, <2>3, <2>4 DEF Next
<1> QED BY <1>1, <1>2, PTL DEF Spec

\* The variables keep their shape.
THEOREM SeedTyping == Spec => []TypeOK
<1>1. SeedInv => TypeOK
  BY DEF SeedInv
<1> QED BY <1>1, SeedInvariant, PTL

\* The script can always be run again: no statement is ever refused.
THEOREM AlwaysRunsAgain == Spec => []NeverRefused
<1>1. SeedInv => NeverRefused
  BY DEF SeedInv, NeverRefused
<1> QED BY <1>1, SeedInvariant, PTL

\* A finished run left alone by the API is as good as a first one.
THEOREM RunsAreComplete == Spec => []FinishedIsComplete
<1>1. SeedInv => FinishedIsComplete
  BY DEF SeedInv, FinishedInv, FinishedIsComplete
<1> QED BY <1>1, SeedInvariant, PTL

\* Whatever others keep in the database survives every run.
THEOREM OthersSurvive == Spec => []OthersUntouched
<1>1. SeedInv => OthersUntouched
  BY DEF SeedInv, RowsInv, OthersUntouched
<1> QED BY <1>1, SeedInvariant, PTL

\* What the script wrote about a project is never there without it.
THEOREM NothingOrphaned == Spec => []NoOrphans
<1>1. SeedInv => NoOrphans
  <2> SUFFICES ASSUME SeedInv, NEW r \in db, IsSeedById(r), r.batch # Nothing
               PROVE  Stored(<<"batch", r.batch>>)
    BY DEF NoOrphans
  <2>1. r \in SeedRows
    BY SameKey DEF SeedInv, RowsInv, IsSeedById
  <2>2. Batch(r.batch) \in db
    BY <2>1 DEF SeedInv, ProjectInv
  <2>3. Key(Batch(r.batch)) = <<"batch", r.batch>>
    BY DEF Key, Batch, Row
  <2> QED BY <2>2, <2>3 DEF Stored
<1> QED BY <1>1, SeedInvariant, PTL
===============================================================================
