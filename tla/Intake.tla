------------------------------- MODULE Intake -------------------------------
(***************************************************************************)
(* How people and projects come into the system: the onboarding form of    *)
(* the console (BeneficiariesPage, BeneficiaryFormFields), the modal in    *)
(* which a project is put together or imported (BatchesPage), and the API  *)
(* behind them, which judges people and lines when they are written.       *)
(*                                                                         *)
(* The form and the draft of a project belong to the application; the      *)
(* modal and its disabled button belong to the page of the projects, and   *)
(* leaving the page forgets them while its calls go on.  The API handles a *)
(* call in the step of the click, since nothing on the page depends on the *)
(* delay; the answer comes later, in any order, or is lost.                *)
(*                                                                         *)
(* Left out: names, search and filters; whether the form is on display and *)
(* the banner about the last person created, which no step depends on; and *)
(* the time a file takes to be read.                                       *)
(*                                                                         *)
(* A definition named as a mutant is a plausible bug in the one after it,  *)
(* kept to show that a run would notice it; no action uses it.             *)
(***************************************************************************)
EXTENDS Naturals, Sequences, FiniteSets

CONSTANTS
    Seeded,         \* the countries of the people known at the start
    Markets,        \* bound: the countries people choose
    Blankable,      \* bound: the fields people may fill with spaces
    Patches,        \* bound: the fields clients of the API change, and how
    TypedAmounts,   \* bound: the amounts people type
    Imports,        \* bound: the files people import
    InitialImport,  \* the file the modal offers to begin with
    MaxPeople,      \* bound: people
    MaxProjects,    \* bound: projects
    MaxLines,       \* bound: lines of a draft
    MaxEdits        \* bound: edits of people

VARIABLES
    people,         \* the API's people, by number
    edited,         \* the people the API changed since they were created
    edits,          \* number of those changes
    projects,       \* the lines of the API's projects, by number
    page,           \* "people" or "projects"
    form,           \* the onboarding form: its country and its texts
    modal,          \* "closed", "manual" or "csv"
    lines,          \* the lines of the draft
    csv,            \* the file to import
    submitting,     \* whether the modal's button is disabled
    submitted,      \* calls to create a project that were not answered
    made,           \* whether the API made a project of this draft
    interrupted     \* ... and the answer was lost, or the page was left

apiVars == <<people, edited, edits, projects>>
draftVars == <<modal, lines, csv, submitting, submitted, made, interrupted>>
vars == <<apiVars, page, form, draftVars>>

\* The fields of a person.  A text is empty, or only spaces, or some name or
\* address, or a detail typed or chosen for a country, which is all that
\* matters of what it says.
Profile == {"name", "email"}
Details == {"bankName", "accountHolderName", "phoneNumber", "accountNumber", "accountType",
            "bankKey", "bankKeyType", "clabe", "documentType", "documentNumber"}
Fields == Profile \cup Details
Texts == {"empty", "blank", "some", "CO", "MX", "AR"}
Numbers == {"within", "outside"}
Amounts == Numbers \cup {"NaN"}

ASSUME MarketsAssumption == Markets \subseteq {"CO", "MX", "AR"} /\ "CO" \in Markets
ASSUME BlankableAssumption == Blankable \subseteq Fields
ASSUME PatchesAssumption == Patches \subseteq Fields \X Texts
ASSUME TypedAmountsAssumption == TypedAmounts \subseteq Numbers
ASSUME SeededAssumption == Seeded \in Seq(Markets) /\ Len(Seeded) =< MaxPeople
ASSUME ImportsAssumption ==
    /\ InitialImport \in Imports
    /\ \A i \in Imports : i \in Seq([person : Nat, amount : Amounts])

-------------------------------------------------------------------------------
\* requiredFields of the corridors: what the API asks for, blank or not.
RequiredFields(c) == {"bankName", "accountHolderName"} \cup
    CASE c = "CO" -> {"phoneNumber", "accountNumber", "accountType",
                      "documentType", "documentNumber"}
      [] c = "MX" -> {"bankKey"}
      [] c = "AR" -> {"bankKey", "bankKeyType", "documentType", "documentNumber"}

\* validateBeneficiaryFields
Valid(person) == \A f \in RequiredFields(person.country) : person.text[f] # "empty"

\* The inputs of the form: those of BeneficiaryIdentityFields, and those
\* BeneficiaryBankingFields shows for a country.
IdentityInputs == Profile \cup {"bankName", "accountHolderName"}
BankingInputs(c) ==
    CASE c = "CO" -> {"phoneNumber", "documentType", "documentNumber",
                      "accountType", "accountNumber"}
      [] c = "MX" -> {"bankKey"}
      [] c = "AR" -> {"bankKeyType", "bankKey", "documentType", "documentNumber"}
Inputs(c) == IdentityInputs \cup BankingInputs(c)
Lists == {"documentType", "accountType", "bankKeyType"}

\* Mutant of Checklist: nobody added the document when Argentina was added.
ChecklistWithoutDocument(c) == IdentityInputs \cup
    CASE c = "CO" -> BankingInputs("CO")
      [] OTHER -> {"bankKey"}

\* getBeneficiaryChecklist: the texts its items need, trimmed.
Checklist(c) == IdentityInputs \cup
    CASE c = "CO" -> {"phoneNumber", "documentType", "documentNumber",
                      "accountType", "accountNumber"}
      [] c = "MX" -> {"bankKey"}
      [] c = "AR" -> {"bankKeyType", "bankKey", "documentType", "documentNumber"}

IsReadyToCreate == \A f \in Checklist(form.country) : form.text[f] \notin {"empty", "blank"}

\* What is chosen for the person with the country.
Chosen(c) ==
    CASE c = "CO" -> {"accountType", "documentType"}
      [] c = "MX" -> {"bankKeyType"}
      [] c = "AR" -> {"bankKeyType", "documentType"}

\* What a person of a country has: the inputs and, in Mexico, the type that
\* is not asked for and the copy of the key.
OwnFields(c) == Inputs(c) \cup Chosen(c) \cup IF c = "MX" THEN {"clabe"} ELSE {}

\* Mutant of ApplyCountryDefaults: nobody added the account number to the
\* fields that are emptied.
KeepAccountNumber(old, c) ==
    [country |-> c,
     text |-> [f \in Fields |->
        IF f \in Profile \cup {"accountNumber"} THEN old.text[f]
        ELSE IF f \in Chosen(c) THEN c ELSE "empty"]]

\* applyBeneficiaryCountryDefaults
ApplyCountryDefaults(old, c) ==
    [country |-> c,
     text |-> [f \in Fields |->
        IF f \in Profile THEN old.text[f] ELSE IF f \in Chosen(c) THEN c ELSE "empty"]]

\* emptyBeneficiaryForm
EmptyForm ==
    [country |-> "CO",
     text |-> [f \in Fields |-> IF f \in Chosen("CO") THEN "CO" ELSE "empty"]]

\* validatePayout: NaN is neither below the minimum nor above the maximum.
HasErrors(line) == ~ Valid(people[line.person]) \/ line.amount = "outside"

\* createBatch
Judged(draft) == [i \in DOMAIN draft |->
    [person |-> draft[i].person, amount |-> draft[i].amount, bad |-> HasErrors(draft[i])]]

-------------------------------------------------------------------------------
Init ==
    /\ people = [n \in 1 .. Len(Seeded) |->
          [country |-> Seeded[n],
           text |-> [f \in Fields |->
              IF f \in Profile THEN "some"
              ELSE IF f \in OwnFields(Seeded[n]) THEN Seeded[n] ELSE "empty"]]]
    /\ edited = {} /\ edits = 0
    /\ projects = <<>>
    /\ page = "people"
    /\ form = EmptyForm
    /\ modal = "closed"
    /\ lines = <<>> /\ csv = InitialImport
    /\ submitting = FALSE /\ submitted = {}
    /\ made = FALSE /\ interrupted = FALSE

\* Another page: this one's state is gone, its calls are not.
Leave ==
    /\ page' = IF page = "people" THEN "projects" ELSE "people"
    /\ modal' = "closed" /\ submitting' = FALSE
    /\ submitted' = {[s EXCEPT !.live = FALSE] : s \in submitted}
    /\ interrupted' = (interrupted \/ made)
    /\ UNCHANGED <<apiVars, form, lines, csv, made>>

-------------------------------------------------------------------------------
\* updateField
UpdateField(f, text) ==
    /\ page = "people"
    /\ Len(people) < MaxPeople                          \* bound
    /\ f \in Inputs(form.country)
    /\ form' = [form EXCEPT
          !.text[f] = text,
          !.text["clabe"] = IF f = "bankKey" /\ form.country = "MX" THEN text ELSE @]
    /\ UNCHANGED <<apiVars, page, draftVars>>

\* What is typed or chosen: a list has no empty choice.
Typed(f) ==
    {IF f \in Profile THEN "some" ELSE form.country}
    \cup (IF f \in Lists THEN {} ELSE {"empty"})
    \cup (IF f \in Blankable \ Lists THEN {"blank"} ELSE {})

ChooseCountry(c) ==
    /\ page = "people"
    /\ Len(people) < MaxPeople                          \* bound
    /\ form' = ApplyCountryDefaults(form, c)
    /\ UNCHANGED <<apiVars, page, draftVars>>

\* createBeneficiary, updateBeneficiary: the key of a Mexican account is
\* kept twice.
WithKey(person) ==
    IF person.country = "MX" /\ person.text["bankKey"] # "empty"
    THEN [person EXCEPT !.text["clabe"] = person.text["bankKey"]]
    ELSE person

\* "Create employee": the form is not cleared, the button not disabled.
CreateEmployee ==
    /\ page = "people"
    /\ IsReadyToCreate
    /\ Len(people) < MaxPeople                          \* bound
    /\ people' = Append(people, WithKey(form))
    /\ UNCHANGED <<edited, edits, projects, page, form, draftVars>>

\* updateBeneficiary, which the API offers and no page does.
UpdateBeneficiary(n) ==
    /\ edits < MaxEdits                                 \* bound
    /\ \/ \E patch \in Patches :
             people' = [people EXCEPT ![n] = WithKey([@ EXCEPT !.text[patch[1]] = patch[2]])]
       \/ \E c \in Markets :
             people' = [people EXCEPT ![n] = WithKey([@ EXCEPT !.country = c])]
    /\ edited' = edited \cup {n}
    /\ edits' = edits + 1
    /\ UNCHANGED <<projects, page, form, draftVars>>

-------------------------------------------------------------------------------
OpenModal(mode) ==
    /\ page = "projects"
    /\ modal' = mode
    /\ UNCHANGED <<apiVars, page, form, lines, csv, submitting, submitted,
                   made, interrupted>>

\* resetCreateProjectState
ResetDraft ==
    /\ lines' = <<>>
    /\ csv' = InitialImport
    /\ made' = FALSE
    /\ interrupted' = FALSE

\* closeCreateProjectModal: "Cancel", the cross, or a click beside it, also
\* while a project is being submitted.
CloseModal ==
    /\ modal # "closed"
    /\ modal' = "closed"
    /\ ResetDraft
    /\ UNCHANGED <<apiVars, page, form, submitting, submitted>>

EditDraft(new) ==
    /\ modal = "manual"
    /\ lines' = new
    /\ UNCHANGED <<apiVars, page, form, modal, csv, submitting, submitted,
                   made, interrupted>>

\* Mutant of AddDraftPayout: the amount is read from a field that is not there.
AddDraftMisread(n, amount) ==
    /\ Len(lines) < MaxLines
    /\ \A i \in DOMAIN lines : lines[i].person # n
    /\ EditDraft(Append(lines, [person |-> n, amount |-> "NaN"]))

AddDraftPayout(n, amount) ==
    /\ Len(lines) < MaxLines                            \* bound
    /\ \A i \in DOMAIN lines : lines[i].person # n
    /\ EditDraft(Append(lines, [person |-> n, amount |-> amount]))

UpdateDraftAmount(i, amount) == EditDraft([lines EXCEPT ![i].amount = amount])

RemoveDraftPayout(i) ==
    EditDraft(SubSeq(lines, 1, i - 1) \o SubSeq(lines, i + 1, Len(lines)))

\* Text in the preview, or a file.
SetCsvImport(new) ==
    /\ modal = "csv"
    /\ csv' = new
    /\ UNCHANGED <<apiVars, page, form, modal, lines, submitting, submitted,
                   made, interrupted>>

\* The draft goes to the API, which makes a project of it if it knows all of
\* its people, or is not reached.
Submit(draft) ==
    /\ Len(projects) < MaxProjects                      \* bound
    /\ \/ /\ \A i \in DOMAIN draft : draft[i].person \in DOMAIN people
          /\ projects' = Append(projects, Judged(draft))
          /\ submitted' = submitted \cup {[project |-> Len(projects) + 1, live |-> TRUE]}
          /\ made' = TRUE
       \/ /\ submitted' = submitted \cup {[project |-> 0, live |-> TRUE]}
          /\ UNCHANGED <<projects, made>>
    /\ submitting' = TRUE
    /\ UNCHANGED <<people, edited, edits, page, form, modal, lines, csv,
                   interrupted>>

\* Mutant of CreateProject: the button stays enabled.
CreateProjectAgain == modal = "manual" /\ lines # <<>> /\ Submit(lines)

\* handleCreateProject
CreateProject == modal = "manual" /\ lines # <<>> /\ ~ submitting /\ Submit(lines)

\* handleImportProject
ImportProject == modal = "csv" /\ ~ submitting /\ Submit(csv)

\* A project was made: the modal on display is closed, whatever it holds.
SubmitAnswered(s) ==
    /\ s \in submitted /\ s.project # 0
    /\ submitted' = submitted \ {s}
    /\ ResetDraft
    /\ modal' = IF s.live THEN "closed" ELSE modal
    /\ submitting' = (submitting /\ ~ s.live)
    /\ UNCHANGED <<apiVars, page, form>>

\* Mutant of SubmitFailed: the button is enabled in a "then", not in a "finally".
SubmitFailedForGood(s) ==
    /\ s \in submitted
    /\ submitted' = submitted \ {s}
    /\ interrupted' = (interrupted \/ (made /\ s.live))
    /\ UNCHANGED <<apiVars, page, form, modal, lines, csv, made, submitting>>

\* The call failed, or its answer is lost.
SubmitFailed(s) ==
    /\ s \in submitted
    /\ submitted' = submitted \ {s}
    /\ interrupted' = (interrupted \/ (made /\ s.live))
    /\ submitting' = (submitting /\ ~ s.live)
    /\ UNCHANGED <<apiVars, page, form, modal, lines, csv, made>>

Answer == \E s \in submitted : SubmitAnswered(s) \/ SubmitFailed(s)

Next ==
    \/ Leave
    \/ CreateEmployee
    \/ \E f \in Fields : \E text \in Typed(f) : UpdateField(f, text)
    \/ \E c \in Markets : ChooseCountry(c)
    \/ \E n \in DOMAIN people : UpdateBeneficiary(n)
    \/ \E mode \in {"manual", "csv"} : OpenModal(mode)
    \/ CloseModal
    \/ \E n \in DOMAIN people, amount \in TypedAmounts : AddDraftPayout(n, amount)
    \/ \E i \in DOMAIN lines :
          RemoveDraftPayout(i) \/ \E amount \in TypedAmounts : UpdateDraftAmount(i, amount)
    \/ \E new \in Imports : SetCsvImport(new)
    \/ CreateProject \/ ImportProject
    \/ Answer

Spec == Init /\ [][Next]_vars

-------------------------------------------------------------------------------
\* Every variable has the shape its declaration promises.
TypeOK ==
    /\ people \in Seq([country : Markets, text : [Fields -> Texts]])
    /\ edited \subseteq DOMAIN people
    /\ projects \in Seq(Seq([person : Nat, amount : Amounts, bad : BOOLEAN]))
    /\ page \in {"people", "projects"}
    /\ form \in [country : Markets, text : [Fields -> Texts]]
    /\ modal \in {"closed", "manual", "csv"}
    /\ lines \in Seq([person : DOMAIN people, amount : Numbers])
    /\ csv \in Imports
    /\ submitted \subseteq [project : {0} \cup DOMAIN projects, live : BOOLEAN]
    /\ <<submitting, made, interrupted>> \in BOOLEAN \X BOOLEAN \X BOOLEAN

\* People who came through the form, which says they are "ready for a
\* payment project", are: their lines have errors only if the amount is
\* outside the limits, or the API changed the person since.
ReadyForProjects ==
    \A k \in DOMAIN projects : \A i \in DOMAIN projects[k] :
        LET line == projects[k][i] IN
        line.bad /\ line.person > Len(Seeded) =>
            line.amount = "outside" \/ line.person \in edited

\* A person created in the form has every detail of the country that was
\* chosen, typed or chosen for that country, and none of another: whatever
\* was typed for a country given up meanwhile is gone, shown or not.
NoForeignDetails ==
    \A n \in DOMAIN people \ edited : \A f \in Details :
        LET own == people[n].country IN
        people[n].text[f] = IF f \in OwnFields(own) THEN own ELSE "empty"

\* The API makes two projects of one draft only after an answer was lost or
\* the page was left: neither a second click nor an edit meanwhile does it.
TwiceOnlyIfInterrupted ==
    [][made /\ projects' # projects => interrupted]_vars

\* The button of the modal is disabled only while the answer of this page's
\* own call is due: no failure, cancel or late answer leaves it stuck, and
\* none enables it while a call it made is on its way.
DisabledWhileSubmitting == submitting <=> \E s \in submitted : s.live
===============================================================================
