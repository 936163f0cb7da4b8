----------------------------- MODULE IntakeProofs -----------------------------
(***************************************************************************)
(* The properties of the forms hold for any people, files, fields and      *)
(* amounts, and for any number of them: the bounds play no part.           *)
(***************************************************************************)
EXTENDS Intake, SequenceTheorems, TLAPS

\* The steps of Next, each with what it leaves of the modal's call.
CallSteps ==
    \/ Leave \/ CloseModal \/ CreateProject \/ ImportProject \/ Answer

\* Every other step leaves the call, and what was made of the draft, alone.
LEMMA OtherSteps ==
    Next => CallSteps \/ UNCHANGED <<submitting, submitted, made, interrupted, projects>>
BY DEF Next, CallSteps, CreateEmployee, UpdateField, ChooseCountry, UpdateBeneficiary,
       OpenModal, EditDraft, AddDraftPayout, RemoveDraftPayout, UpdateDraftAmount,
       SetCsvImport, apiVars, draftVars

-------------------------------------------------------------------------------
People == [country : Markets, text : [Fields -> Texts]]
DraftLines == [person : DOMAIN people, amount : Numbers]
JudgedLines == [person : Nat, amount : Amounts, bad : BOOLEAN]

\* What is typed is a text, and a person whose texts change is a person.
LEMMA TextType ==
    ASSUME NEW p \in People, NEW f \in Fields, NEW text \in Texts
    PROVE  [p EXCEPT !.text[f] = text] \in People
BY DEF People

LEMMA TypedType ==
    ASSUME form \in People, NEW f \in Fields
    PROVE  Typed(f) \subseteq Texts
BY MarketsAssumption DEF Typed, People, Texts

\* The form stays a form.
LEMMA FormType ==
    ASSUME NEW p \in People, NEW c \in Markets
    PROVE  ApplyCountryDefaults(p, c) \in People
BY MarketsAssumption DEF ApplyCountryDefaults, People, Texts

LEMMA WithKeyType ==
    ASSUME NEW p \in People
    PROVE  WithKey(p) \in People
<1>1. "clabe" \in Fields /\ p.text["bankKey"] \in Texts
  BY DEF People, Fields, Details
<1>2. [p EXCEPT !.text["clabe"] = p.text["bankKey"]] \in People
  BY <1>1, TextType
<1> QED BY <1>2 DEF WithKey

\* What the API makes of a draft is a project.
LEMMA JudgedType ==
    ASSUME NEW draft \in Seq([person : Nat, amount : Amounts])
    PROVE  Judged(draft) \in Seq(JudgedLines)
<1>1. ASSUME NEW i \in DOMAIN draft
      PROVE  Judged(draft)[i] \in JudgedLines
  <2>1. HasErrors(draft[i]) \in BOOLEAN
    BY DEF HasErrors, Valid
  <2> DEFINE DraftLine == [person : Nat, amount : Amounts]
  <2> HIDE DEF DraftLine
  <2>2. draft \in Seq(DraftLine)
    BY DEF DraftLine
  <2>3. draft[i] \in DraftLine
    BY <2>2
  <2>4. draft[i].person \in Nat /\ draft[i].amount \in Amounts
    BY <2>3 DEF DraftLine
  <2> QED BY <2>1, <2>4 DEF Judged, JudgedLines
<1>2. DOMAIN Judged(draft) = 1 .. Len(draft)
  BY DEF Judged
<1>3. Judged(draft) \in [1 .. Len(draft) -> JudgedLines]
  BY <1>1, <1>2 DEF Judged
<1> QED BY <1>3, SeqDef

\* A draft of people the API knows is a draft when it knows more of them.
LEMMA DraftKept ==
    ASSUME TypeOK, DOMAIN people \subseteq DOMAIN people'
    PROVE  lines \in Seq(DraftLines')
<1>1. lines \in Seq(DraftLines)
  BY DEF TypeOK, DraftLines
<1>2. DraftLines \subseteq DraftLines'
  BY DEF DraftLines
<1> HIDE DEF DraftLines
<1> QED BY <1>1, <1>2

\* A console that was just opened is well typed.
LEMMA InitTypeOK == Init => TypeOK
<1> SUFFICES ASSUME Init PROVE TypeOK
  OBVIOUS
<1>1. "CO" \in Markets /\ Seeded \in Seq(Markets) /\ InitialImport \in Imports
  BY MarketsAssumption, SeededAssumption, ImportsAssumption
<1>2. people \in Seq(People)
  <2>1. \A n \in 1 .. Len(Seeded) : people[n] \in People
    <3> SUFFICES ASSUME NEW n \in 1 .. Len(Seeded) PROVE people[n] \in People
      OBVIOUS
    <3>1. Seeded[n] \in Markets
      BY <1>1, ElementOfSeq
    <3>2. Seeded[n] \in Texts
      BY <3>1, MarketsAssumption DEF Texts
    <3> DEFINE text == [f \in Fields |->
                 IF f \in Profile THEN "some"
                 ELSE IF f \in OwnFields(Seeded[n]) THEN Seeded[n] ELSE "empty"]
    <3>3. people[n] = [country |-> Seeded[n], text |-> text]
      BY DEF Init
    <3>4. text \in [Fields -> Texts]
      BY <3>2 DEF Texts
    <3> HIDE DEF text
    <3> QED BY <3>1, <3>3, <3>4 DEF People
  <2>2. Len(Seeded) \in Nat /\ people = [n \in 1 .. Len(Seeded) |-> people[n]]
    BY <1>1 DEF Init
  <2> HIDE DEF People
  <2> QED BY <2>1, <2>2, SeqDef
<1>3. form \in People
  BY <1>1 DEF Init, EmptyForm, People, Texts
<1>4. lines \in Seq([person : DOMAIN people, amount : Numbers]) /\ projects \in Seq(Seq(JudgedLines))
  BY DEF Init
<1> QED BY <1>1, <1>2, <1>3, <1>4 DEF Init, TypeOK, People, JudgedLines

\* Every handler of the form and the modal keeps the types.
LEMMA NextTypeOK == TypeOK /\ [Next]_vars => TypeOK'
<1> SUFFICES ASSUME TypeOK, [Next]_vars PROVE TypeOK'
  OBVIOUS
<1>1. /\ people \in Seq(People) /\ form \in People
      /\ projects \in Seq(Seq(JudgedLines)) /\ lines \in Seq(DraftLines) /\ csv \in Imports
  BY DEF TypeOK, People, JudgedLines, DraftLines
<1> DEFINE ApiTyped ==
      /\ people' \in Seq(People)
      /\ edited' \subseteq DOMAIN people'
      /\ projects' \in Seq(Seq(JudgedLines))
    FormTyped == page' \in {"people", "projects"} /\ form' \in People
    DraftTyped ==
      /\ modal' \in {"closed", "manual", "csv"}
      /\ lines' \in Seq(DraftLines')
      /\ csv' \in Imports
      /\ submitted' \subseteq [project : {0} \cup DOMAIN projects', live : BOOLEAN]
      /\ <<submitting', made', interrupted'>> \in BOOLEAN \X BOOLEAN \X BOOLEAN
<1>2. ApiTyped /\ FormTyped /\ DraftTyped => TypeOK'
  BY DEF TypeOK, People, JudgedLines, DraftLines
<1>3. UNCHANGED apiVars => ApiTyped
  BY <1>1 DEF TypeOK, apiVars
<1>4. UNCHANGED <<page, form>> => FormTyped
  BY <1>1 DEF TypeOK
<1>5. UNCHANGED <<projects, draftVars>> /\ DOMAIN people \subseteq DOMAIN people' => DraftTyped
  BY <1>1, DraftKept DEF TypeOK, draftVars
<1> HIDE DEF ApiTyped, FormTyped, DraftTyped
<1>6. CASE UNCHANGED vars
  BY <1>2, <1>3, <1>4, <1>5, <1>6 DEF vars, apiVars
<1>7. CASE Leave
  <2>1. submitted' \subseteq [project : {0} \cup DOMAIN projects', live : BOOLEAN]
    <3>1. submitted' = {[s EXCEPT !.live = FALSE] : s \in submitted} /\ projects' = projects
      BY <1>7 DEF Leave, apiVars
    <3>2. ASSUME NEW s \in submitted
          PROVE  [s EXCEPT !.live = FALSE] \in [project : {0} \cup DOMAIN projects, live : BOOLEAN]
      BY DEF TypeOK
    <3> QED BY <3>1, <3>2
  <2>2. DraftTyped
    BY <1>1, <1>7, <2>1, DraftKept DEF Leave, TypeOK, apiVars, DraftTyped
  <2>3. FormTyped
    BY <1>1, <1>7 DEF Leave, TypeOK, FormTyped
  <2> QED BY <1>2, <1>3, <1>7, <2>2, <2>3 DEF Leave
<1>8. CASE CreateEmployee
  <2>1. people' \in Seq(People) /\ DOMAIN people \subseteq DOMAIN people'
    <3>1. WithKey(form) \in People
      BY <1>1, WithKeyType
    <3> HIDE DEF People
    <3> QED BY <1>1, <1>8, <3>1, AppendProperties DEF CreateEmployee
  <2>2. ApiTyped
    BY <1>1, <1>8, <2>1 DEF CreateEmployee, TypeOK, ApiTyped
  <2> QED BY <1>2, <1>4, <1>5, <1>8, <2>1, <2>2 DEF CreateEmployee
<1>9. ASSUME NEW f \in Fields, NEW text \in Typed(f), UpdateField(f, text)
      PROVE  TypeOK'
  <2>1. text \in Texts
    BY <1>1, TypedType
  <2>2. form' \in People
    <3>1. [form EXCEPT !.text[f] = text] \in People
      BY <1>1, <2>1, TextType
    <3>2. "clabe" \in Fields
      BY DEF Fields, Details
    <3>3. PICK copy \in {text, form.text["clabe"]} :
             form' = [[form EXCEPT !.text[f] = text] EXCEPT !.text["clabe"] = copy]
      BY <1>9, <3>2 DEF UpdateField
    <3>4. copy \in Texts
      BY <1>1, <2>1, <3>2 DEF People
    <3> HIDE DEF People
    <3> QED BY <3>1, <3>2, <3>3, <3>4, TextType
  <2>3. FormTyped
    BY <1>9, <2>2 DEF UpdateField, TypeOK, FormTyped
  <2> QED BY <1>2, <1>3, <1>5, <1>9, <2>3 DEF UpdateField, apiVars
<1>10. ASSUME NEW c \in Markets, ChooseCountry(c)
       PROVE  TypeOK'
  <2>1. ApplyCountryDefaults(form, c) \in People
    BY <1>1, FormType
  <2>2. FormTyped
    BY <1>1, <1>10, <2>1 DEF ChooseCountry, TypeOK, FormTyped
  <2> QED BY <1>2, <1>3, <1>5, <1>10, <2>2 DEF ChooseCountry, apiVars
<1>11. ASSUME NEW n \in DOMAIN people, UpdateBeneficiary(n)
       PROVE  TypeOK'
  <2>1. people' \in Seq(People) /\ DOMAIN people' = DOMAIN people
    <3>1. people[n] \in People
      BY <1>1
    <3>2. ASSUME NEW patch \in Patches
          PROVE  [people[n] EXCEPT !.text[patch[1]] = patch[2]] \in People
      BY <3>1, PatchesAssumption, TextType
    <3>3. ASSUME NEW c \in Markets
          PROVE  [people[n] EXCEPT !.country = c] \in People
      BY <3>1 DEF People
    <3>4. PICK p \in People : people' = [people EXCEPT ![n] = WithKey(p)]
      BY <1>11, <3>2, <3>3 DEF UpdateBeneficiary
    <3>5. WithKey(p) \in People
      BY WithKeyType
    <3> HIDE DEF People
    <3> QED BY <1>1, <3>4, <3>5
  <2>2. ApiTyped
    BY <1>1, <1>11, <2>1 DEF UpdateBeneficiary, TypeOK, ApiTyped
  <2> QED BY <1>2, <1>4, <1>5, <1>11, <2>1, <2>2 DEF UpdateBeneficiary
<1>12. ASSUME NEW mode \in {"manual", "csv"}, OpenModal(mode)
       PROVE  TypeOK'
  <2>1. DraftTyped
    BY <1>1, <1>12, DraftKept DEF OpenModal, TypeOK, apiVars, DraftTyped
  <2> QED BY <1>2, <1>3, <1>4, <1>12, <2>1 DEF OpenModal
<1>13. ASSUME NEW new, new \in Seq(DraftLines), EditDraft(new)
       PROVE  TypeOK'
  <2>1. DraftTyped
    BY <1>1, <1>13 DEF EditDraft, TypeOK, apiVars, DraftTyped, DraftLines
  <2> QED BY <1>2, <1>3, <1>4, <1>13, <2>1 DEF EditDraft
<1>14. ASSUME NEW n \in DOMAIN people, NEW amount \in TypedAmounts, AddDraftPayout(n, amount)
       PROVE  TypeOK'
  <2>1. [person |-> n, amount |-> amount] \in DraftLines
    BY TypedAmountsAssumption DEF DraftLines
  <2>2. Append(lines, [person |-> n, amount |-> amount]) \in Seq(DraftLines)
    BY <1>1, <2>1
  <2> QED BY <1>13, <1>14, <2>2 DEF AddDraftPayout
<1>15. ASSUME NEW i \in DOMAIN lines, RemoveDraftPayout(i)
       PROVE  TypeOK'
  <2> DEFINE R == DraftLines
  <2> HIDE DEF R
  <2>1. lines \in Seq(R) /\ i \in 1 .. Len(lines) /\ Len(lines) \in Nat
    BY <1>1 DEF R
  <2>2. \A j \in 1 .. Len(lines) : lines[j] \in R
    BY <2>1, ElementOfSeq
  <2>3. SubSeq(lines, 1, i - 1) \in Seq(R)
    BY <2>1, <2>2, SubSeqProperties
  <2>4. SubSeq(lines, i + 1, Len(lines)) \in Seq(R)
    BY <2>1, <2>2, SubSeqProperties
  <2>5. SubSeq(lines, 1, i - 1) \o SubSeq(lines, i + 1, Len(lines)) \in Seq(R)
    BY <2>3, <2>4, ConcatProperties
  <2> QED BY <1>13, <1>15, <2>5 DEF RemoveDraftPayout, R
<1>16. ASSUME NEW i \in DOMAIN lines, NEW amount \in TypedAmounts, UpdateDraftAmount(i, amount)
       PROVE  TypeOK'
  <2>1. lines[i] \in DraftLines
    BY <1>1
  <2>2. [lines[i] EXCEPT !.amount = amount] \in DraftLines
    BY <2>1, TypedAmountsAssumption DEF DraftLines
  <2>3. [lines EXCEPT ![i].amount = amount] \in Seq(DraftLines)
    BY <1>1, <2>2
  <2> QED BY <1>13, <1>16, <2>3 DEF UpdateDraftAmount
<1>17. ASSUME NEW new \in Imports, SetCsvImport(new)
       PROVE  TypeOK'
  <2>1. DraftTyped
    BY <1>1, <1>17, DraftKept DEF SetCsvImport, TypeOK, apiVars, DraftTyped
  <2> QED BY <1>2, <1>3, <1>4, <1>17, <2>1 DEF SetCsvImport
<1>18. CASE CloseModal
  <2>1. lines' \in Seq(DraftLines')
    BY <1>18 DEF CloseModal, ResetDraft
  <2>2. DraftTyped
    BY <1>18, <2>1, ImportsAssumption DEF CloseModal, ResetDraft, TypeOK, apiVars, DraftTyped
  <2> QED BY <1>2, <1>3, <1>4, <1>18, <2>2 DEF CloseModal
<1>19. ASSUME NEW draft, draft \in Seq([person : Nat, amount : Amounts]), Submit(draft)
       PROVE  TypeOK'
  <2>1. ApiTyped /\ submitted' \subseteq [project : {0} \cup DOMAIN projects', live : BOOLEAN]
        /\ made' \in BOOLEAN
    <3>1. CASE /\ projects' = Append(projects, Judged(draft))
               /\ submitted' = submitted \cup {[project |-> Len(projects) + 1, live |-> TRUE]}
               /\ made' = TRUE
      <4>1. Judged(draft) \in Seq(JudgedLines)
        BY <1>19, JudgedType
      <4> DEFINE R == Seq(JudgedLines)
      <4> HIDE DEF R
      <4>2. projects \in Seq(R) /\ Judged(draft) \in R
        BY <1>1, <4>1 DEF R
      <4>3. projects' \in Seq(R) /\ DOMAIN projects' = 1 .. (Len(projects) + 1)
            /\ DOMAIN projects = 1 .. Len(projects) /\ Len(projects) \in Nat
        BY <3>1, <4>2, AppendProperties
      <4>4. submitted' \subseteq [project : {0} \cup DOMAIN projects', live : BOOLEAN]
        <5>1. DOMAIN projects \subseteq DOMAIN projects' /\ Len(projects) + 1 \in DOMAIN projects'
          BY <4>3
        <5>2. submitted \subseteq [project : {0} \cup DOMAIN projects, live : BOOLEAN]
          BY DEF TypeOK
        <5>3. submitted \subseteq [project : {0} \cup DOMAIN projects', live : BOOLEAN]
          BY <5>1, <5>2
        <5>4. [project |-> Len(projects) + 1, live |-> TRUE]
                 \in [project : {0} \cup DOMAIN projects', live : BOOLEAN]
          BY <5>1
        <5> DEFINE P == [project : {0} \cup DOMAIN projects', live : BOOLEAN]
                   call == [project |-> Len(projects) + 1, live |-> TRUE]
        <5>5. submitted' = submitted \cup {call} /\ submitted \subseteq P /\ call \in P
          BY <3>1, <5>3, <5>4
        <5> HIDE DEF P, call
        <5>6. submitted' \subseteq P
          BY <5>5
        <5> QED BY <5>6 DEF P
      <4>5. ApiTyped
        BY <1>1, <1>19, <4>3 DEF Submit, TypeOK, ApiTyped, R
      <4> QED BY <3>1, <4>4, <4>5
    <3>2. CASE /\ submitted' = submitted \cup {[project |-> 0, live |-> TRUE]}
               /\ UNCHANGED <<projects, made>>
      <4>1. UNCHANGED apiVars
        BY <1>19, <3>2 DEF Submit, apiVars
      <4>2. submitted' \subseteq [project : {0} \cup DOMAIN projects, live : BOOLEAN]
        <5> DEFINE P == [project : {0} \cup DOMAIN projects, live : BOOLEAN]
                   call == [project |-> 0, live |-> TRUE]
        <5>1. submitted' = submitted \cup {call} /\ submitted \subseteq P /\ call \in P
          BY <3>2 DEF TypeOK
        <5> HIDE DEF P, call
        <5>2. submitted' \subseteq P
          BY <5>1
        <5> QED BY <5>2 DEF P
      <4>3. made' \in BOOLEAN
        BY <3>2 DEF TypeOK
      <4> QED BY <1>3, <3>2, <4>1, <4>2, <4>3
    <3> QED BY <1>19, <3>1, <3>2 DEF Submit
  <2>2. DraftTyped
    BY <1>1, <1>19, <2>1, DraftKept DEF Submit, TypeOK, DraftTyped
  <2> QED BY <1>2, <1>4, <1>19, <2>1, <2>2 DEF Submit
<1>20. CASE CreateProject \/ ImportProject
  <2> DEFINE R == [person : Nat, amount : Amounts]
  <2>1. csv \in Seq(R)
    BY <1>1, ImportsAssumption
  <2>2. DraftLines \subseteq R
    BY <1>1 DEF DraftLines, Amounts
  <2>3. lines \in Seq(R)
    <3> HIDE DEF R
    <3> QED BY <1>1, <2>2, SeqMonotonic
  <2> QED BY <1>19, <1>20, <2>1, <2>3 DEF CreateProject, ImportProject
<1>21. CASE Answer
  <2> PICK s \in submitted : SubmitAnswered(s) \/ SubmitFailed(s)
    BY <1>21 DEF Answer
  <2>1. s.live \in BOOLEAN /\ submitted' \subseteq submitted /\ UNCHANGED <<apiVars, page, form>>
    BY DEF TypeOK, SubmitAnswered, SubmitFailed
  <2>2. submitted' \subseteq [project : {0} \cup DOMAIN projects', live : BOOLEAN]
    BY <2>1 DEF TypeOK, apiVars
  <2>3. CASE SubmitAnswered(s)
    <3>1. lines' \in Seq(DraftLines')
      BY <2>3 DEF SubmitAnswered, ResetDraft
    <3>2. modal' \in {"closed", "manual", "csv"} /\ csv' \in Imports
      BY <2>3, ImportsAssumption DEF SubmitAnswered, ResetDraft, TypeOK
    <3>3. submitting' \in BOOLEAN /\ made' \in BOOLEAN /\ interrupted' \in BOOLEAN
      BY <2>3 DEF SubmitAnswered, ResetDraft
    <3>4. DraftTyped
      BY <2>2, <3>1, <3>2, <3>3 DEF DraftTyped
    <3> QED BY <1>2, <1>3, <1>4, <2>1, <3>4
  <2>4. CASE SubmitFailed(s)
    <3>1. DraftTyped
      BY <1>1, <2>1, <2>2, <2>4, DraftKept DEF SubmitFailed, TypeOK, apiVars, DraftTyped
    <3> QED BY <1>2, <1>3, <1>4, <2>1, <3>1
  <2> QED BY <2>3, <2>4
<1> QED
  BY <1>6, <1>7, <1>8, <1>9, <1>10, <1>11, <1>12, <1>14, <1>15, <1>16, <1>17, <1>18, <1>20, <1>21
  DEF Next

\* Every variable of the forms has the shape its declaration promises.
THEOREM Typing == Spec => []TypeOK
BY InitTypeOK, NextTypeOK, PTL DEF Spec

-------------------------------------------------------------------------------
\* At most one call was made by the page on display, and it is the one the
\* button waits for.
OneLive ==
    /\ \A s, t \in submitted : s.live /\ t.live => s = t
    /\ DisabledWhileSubmitting

\* No handler makes a second call while one of this page is due.
LEMMA NextOneLive == TypeOK /\ OneLive /\ [Next]_vars => OneLive'
<1> SUFFICES ASSUME TypeOK, OneLive, [Next]_vars
             PROVE  OneLive'
  OBVIOUS
<1> USE DEF OneLive, DisabledWhileSubmitting
<1>0. /\ submitting \in BOOLEAN
      /\ \A s \in submitted : s.live \in BOOLEAN
  BY DEF TypeOK
<1>1. CASE UNCHANGED <<submitting, submitted>>
  BY <1>1
<1>2. CASE Leave
  <2>1. submitted' = {[s EXCEPT !.live = FALSE] : s \in submitted} /\ submitting' = FALSE
    BY <1>2 DEF Leave
  <2>2. \A s \in submitted' : s.live = FALSE
    BY <2>1 DEF TypeOK
  <2> QED BY <2>1, <2>2
<1>3. CASE CreateProject \/ ImportProject
  <2>1. PICK n : submitted' = submitted \cup {[project |-> n, live |-> TRUE]}
    BY <1>3 DEF CreateProject, ImportProject, Submit
  <2>2. submitting = FALSE /\ submitting' = TRUE
    BY <1>0, <1>3 DEF CreateProject, ImportProject, Submit
  <2>3. \A s \in submitted : s.live = FALSE
    BY <1>0, <2>2
  <2>4. \A s \in submitted' : s.live => s = [project |-> n, live |-> TRUE]
    BY <2>1, <2>3
  <2>5. [project |-> n, live |-> TRUE] \in submitted' /\ [project |-> n, live |-> TRUE].live
    BY <2>1
  <2> QED BY <2>2, <2>4, <2>5
<1>4. CASE Answer
  <2>1. PICK s \in submitted : /\ submitted' = submitted \ {s}
                               /\ submitting' = (submitting /\ ~ s.live)
    BY <1>4 DEF Answer, SubmitAnswered, SubmitFailed
  <2> QED BY <1>0, <2>1
<1>5. CASE CloseModal
  BY <1>1, <1>5 DEF CloseModal
<1> QED BY <1>1, <1>2, <1>3, <1>4, <1>5, OtherSteps DEF CallSteps, vars, draftVars

\* The button of the modal tells whether this page waits for an answer.
THEOREM ButtonTellsTheTruth == Spec => []DisabledWhileSubmitting
<1>1. Init => OneLive
  BY DEF Init, OneLive, DisabledWhileSubmitting
<1>2. OneLive => DisabledWhileSubmitting
  BY DEF OneLive
<1> QED BY <1>1, <1>2, NextOneLive, Typing, PTL DEF Spec

\* While nothing went wrong, a draft of which a project was made is one whose
\* button is disabled.
MadeIsDisabled == made /\ ~ interrupted => submitting

\* One draft makes one project, unless an answer was lost or the page left.
THEOREM OneProjectPerDraft == Spec => TwiceOnlyIfInterrupted
<1>1. Init => MadeIsDisabled
  BY DEF Init, MadeIsDisabled
<1>2. ASSUME MadeIsDisabled, [Next]_vars
      PROVE  MadeIsDisabled' /\ (made /\ projects' # projects => interrupted)
  <2> USE <1>2 DEF MadeIsDisabled
  <2>1. CASE UNCHANGED <<submitting, made, interrupted, projects>>
    BY <2>1
  <2>2. CASE Leave
    BY <2>2 DEF Leave, apiVars
  <2>3. CASE CloseModal
    BY <2>3 DEF CloseModal, ResetDraft, apiVars
  <2>4. CASE CreateProject \/ ImportProject
    BY <2>4 DEF CreateProject, ImportProject, Submit
  <2>5. CASE Answer
    <3> PICK s \in submitted : SubmitAnswered(s) \/ SubmitFailed(s)
      BY <2>5 DEF Answer
    <3>1. CASE SubmitAnswered(s)
      BY <3>1 DEF SubmitAnswered, ResetDraft, apiVars
    <3>2. CASE SubmitFailed(s)
      BY <3>2 DEF SubmitFailed, apiVars
    <3> QED BY <3>1, <3>2
  <2> QED BY <2>1, <2>2, <2>3, <2>4, <2>5, OtherSteps DEF CallSteps, vars, apiVars, draftVars
<1>3. MadeIsDisabled /\ [Next]_vars =>
         MadeIsDisabled' /\ [made /\ projects' # projects => interrupted]_vars
  BY <1>2
<1> QED BY <1>1, <1>3, PTL DEF Spec, TwiceOnlyIfInterrupted

-------------------------------------------------------------------------------
\* A form on its way: a detail of the country is the country's or not there
\* yet, and any other is not there.  The key type of Mexico was chosen with
\* the country, and the copy of the key goes with the key.
Clean(p) ==
    /\ \A f \in Details :
          IF f \in OwnFields(p.country) THEN p.text[f] \in {p.country, "empty", "blank"}
                                       ELSE p.text[f] = "empty"
    /\ p.country = "MX" =>
          p.text["bankKeyType"] = "MX" /\ p.text["clabe"] = p.text["bankKey"]

\* A person whose every detail is there, and is the country's.
Whole(p) ==
    \A f \in Details : p.text[f] = IF f \in OwnFields(p.country) THEN p.country ELSE "empty"

\* The form is clean, and who came through it is whole and has what the API
\* asks for, until the API changes them.
FormInv ==
    /\ Clean(form)
    /\ \A n \in DOMAIN people \ edited : Whole(people[n])
    /\ \A n \in DOMAIN people \ edited : n > Len(Seeded) => Valid(people[n])

\* The checklist asks for whatever the API asks for.
LEMMA ChecklistSuffices ==
    ASSUME form \in People, IsReadyToCreate
    PROVE  Valid(WithKey(form))
<1>1. form.country \in {"CO", "MX", "AR"}
  BY MarketsAssumption DEF People
<1>2. RequiredFields(form.country) \subseteq Checklist(form.country)
  BY <1>1 DEF RequiredFields, Checklist, IdentityInputs
<1>3. "clabe" \notin RequiredFields(form.country)
  BY <1>1 DEF RequiredFields
<1>4. WithKey(form).country = form.country
      /\ \A f \in Fields : f # "clabe" => WithKey(form).text[f] = form.text[f]
  BY DEF WithKey, People
<1>5. RequiredFields(form.country) \subseteq Fields
  BY <1>1 DEF RequiredFields, Fields, Details
<1> QED BY <1>2, <1>3, <1>4, <1>5 DEF IsReadyToCreate, Valid

\* A clean form with its checklist done makes a whole person.
LEMMA ReadyIsWhole ==
    ASSUME form \in People, Clean(form), IsReadyToCreate
    PROVE  Whole(WithKey(form))
<1>1. form.country \in {"CO", "MX", "AR"}
  BY MarketsAssumption DEF People
<1>2. OwnFields(form.country) \cap Details \subseteq
         Checklist(form.country) \cup
         (IF form.country = "MX" THEN {"clabe", "bankKeyType"} ELSE {})
  BY <1>1 DEF OwnFields, Inputs, IdentityInputs, BankingInputs, Chosen, Checklist
<1>3. \A f \in Checklist(form.country) \cap Details \cap OwnFields(form.country) :
         form.text[f] = form.country
  BY DEF IsReadyToCreate, Clean
<1>4. form.country = "MX" =>
         form.text["bankKeyType"] = "MX" /\ form.text["clabe"] = "MX" /\ form.text["bankKey"] = "MX"
  <2>1. form.country = "MX" => "bankKey" \in Checklist(form.country) \cap Details \cap OwnFields(form.country)
    BY DEF Checklist, Details, OwnFields, Inputs, BankingInputs
  <2> QED BY <1>3, <2>1 DEF Clean
<1>5. \A f \in Details :
         form.text[f] = IF f \in OwnFields(form.country) THEN form.country ELSE "empty"
  BY <1>2, <1>3, <1>4 DEF Clean
<1>6. WithKey(form).country = form.country /\ \A f \in Fields : WithKey(form).text[f] = form.text[f]
  BY <1>4 DEF WithKey, People
<1> QED BY <1>5, <1>6 DEF Whole, Fields

\* A country is chosen with an empty set of bank details, but for its types.
LEMMA DefaultsAreClean ==
    ASSUME NEW p, NEW c \in Markets
    PROVE  Clean(ApplyCountryDefaults(p, c))
<1> DEFINE new == ApplyCountryDefaults(p, c)
<1>1. new.country = c /\ c \in {"CO", "MX", "AR"}
  BY MarketsAssumption DEF ApplyCountryDefaults
<1>2. \A f \in Details : new.text[f] = IF f \in Chosen(c) THEN c ELSE "empty"
  BY DEF ApplyCountryDefaults, Fields, Profile, Details
<1>3. c = "MX" => new.text["bankKeyType"] = "MX" /\ new.text["clabe"] = new.text["bankKey"]
  BY <1>2 DEF Chosen, Details
<1>4. \A f \in Details :
         IF f \in OwnFields(c) THEN new.text[f] \in {c, "empty", "blank"} ELSE new.text[f] = "empty"
  BY <1>2 DEF OwnFields
<1>5. Clean(new)
  <2> HIDE DEF new
  <2> QED BY <1>1, <1>3, <1>4 DEF Clean
<1> QED BY <1>5

\* The form is clean at first, and so are the people known.
LEMMA InitForm == Init => FormInv
<1> SUFFICES ASSUME Init PROVE FormInv
  OBVIOUS
<1>1. Clean(form)
  BY DEF Init, EmptyForm, Clean, OwnFields, Fields
<1>2. DOMAIN people = 1 .. Len(Seeded) /\ Len(Seeded) \in Nat
  BY SeededAssumption DEF Init
<1>3. \A n \in DOMAIN people : Whole(people[n])
  BY <1>2 DEF Init, Whole, Fields, Profile, Details
<1>4. \A n \in DOMAIN people : ~ (n > Len(Seeded))
  BY <1>2
<1> QED BY <1>1, <1>3, <1>4 DEF FormInv

\* Every handler leaves the form clean, and its people as the API found them.
LEMMA NextForm == TypeOK /\ FormInv /\ [Next]_vars => FormInv'
<1> SUFFICES ASSUME TypeOK, FormInv, [Next]_vars PROVE FormInv'
  OBVIOUS
<1>1. people \in Seq(People) /\ form \in People
  BY DEF TypeOK, People
<1>2. CASE UNCHANGED <<people, edited, form>>
  BY <1>2 DEF FormInv
<1>3. CASE CreateEmployee
  <2>1. people' = Append(people, WithKey(form)) /\ UNCHANGED <<edited, form>> /\ IsReadyToCreate
    BY <1>3 DEF CreateEmployee
  <2>2. /\ DOMAIN people' = 1 .. Len(people) + 1 /\ Len(people) \in Nat
        /\ \A n \in 1 .. Len(people) : people'[n] = people[n]
        /\ people'[Len(people) + 1] = WithKey(form)
        /\ DOMAIN people = 1 .. Len(people)
    <3>1. WithKey(form) \in People
      BY <1>1, WithKeyType
    <3> HIDE DEF People
    <3> QED BY <1>1, <2>1, <3>1, AppendProperties
  <2>3. ASSUME NEW n \in DOMAIN people'
        PROVE  (n \in DOMAIN people /\ people'[n] = people[n]) \/ people'[n] = WithKey(form)
    BY <2>2
  <2>4. Valid(WithKey(form)) /\ Whole(WithKey(form))
    BY <1>1, <2>1, ChecklistSuffices, ReadyIsWhole DEF FormInv
  <2>5. \A n \in DOMAIN people' \ edited' : Whole(people'[n])
    BY <2>1, <2>3, <2>4 DEF FormInv
  <2>6. \A n \in DOMAIN people' \ edited' : n > Len(Seeded) => Valid(people'[n])
    BY <2>1, <2>3, <2>4 DEF FormInv
  <2> QED BY <2>1, <2>5, <2>6 DEF FormInv
<1>4. ASSUME NEW f \in Fields, NEW text \in Typed(f), UpdateField(f, text)
      PROVE  FormInv'
  <2>1. UNCHANGED <<people, edited>> /\ f \in Inputs(form.country) /\ form.country \in Markets
    BY <1>1, <1>4 DEF UpdateField, apiVars, People
  <2>2. form.country \in {"CO", "MX", "AR"}
    BY <2>1, MarketsAssumption
  <2>3. f # "clabe" /\ (form.country = "MX" => f # "bankKeyType") /\ f \in OwnFields(form.country)
    BY <2>1, <2>2 DEF Inputs, IdentityInputs, BankingInputs, Profile, OwnFields
  <2>4. f \in Details => text \in {form.country, "empty", "blank"}
    BY DEF Typed, Details, Profile
  <2>5. /\ form'.country = form.country
        /\ form'.text[f] = text
        /\ \A h \in Fields : h \notin {f, "clabe"} => form'.text[h] = form.text[h]
        /\ form'.text["clabe"] =
             IF f = "bankKey" /\ form.country = "MX" THEN text ELSE form.text["clabe"]
    <3>1. f \in Fields /\ "clabe" \in Fields
      BY DEF Fields, Details
    <3> QED BY <1>1, <1>4, <2>3, <3>1 DEF UpdateField, People
  <2>6. Clean(form)'
    <3>1. ASSUME NEW h \in Details
          PROVE  IF h \in OwnFields(form.country)
                 THEN form'.text[h] \in {form.country, "empty", "blank"}
                 ELSE form'.text[h] = "empty"
      <4>1. CASE h = f
        BY <2>3, <2>4, <2>5, <4>1
      <4>2. CASE h = "clabe" /\ f = "bankKey" /\ form.country = "MX"
        <5>1. h \in OwnFields(form.country) /\ f \in Details
          BY <4>2 DEF OwnFields, Details
        <5> QED BY <2>4, <2>5, <4>2, <5>1
      <4>3. CASE h # f /\ ~ (h = "clabe" /\ f = "bankKey" /\ form.country = "MX")
        <5>1. form'.text[h] = form.text[h]
          BY <2>5, <4>3 DEF Fields
        <5> QED BY <5>1 DEF FormInv, Clean
      <4> QED BY <4>1, <4>2, <4>3
    <3>2. form.country = "MX" =>
             form'.text["bankKeyType"] = "MX" /\ form'.text["clabe"] = form'.text["bankKey"]
      <4>1. "bankKeyType" \in Fields /\ "bankKey" \in Fields
        BY DEF Fields, Details
      <4> QED BY <2>3, <2>5, <4>1 DEF FormInv, Clean
    <3> QED BY <2>5, <3>1, <3>2 DEF Clean
  <2> QED BY <2>1, <2>6 DEF FormInv
<1>5. ASSUME NEW c \in Markets, ChooseCountry(c)
      PROVE  FormInv'
  <2>1. UNCHANGED <<people, edited>> /\ form' = ApplyCountryDefaults(form, c)
    BY <1>5 DEF ChooseCountry, apiVars
  <2>2. Clean(form')
    BY <2>1, DefaultsAreClean
  <2> QED BY <2>1, <2>2 DEF FormInv
<1>6. ASSUME NEW n \in DOMAIN people, UpdateBeneficiary(n)
      PROVE  FormInv'
  <2>1. form' = form /\ edited' = edited \cup {n}
    BY <1>6 DEF UpdateBeneficiary
  <2>2. DOMAIN people' = DOMAIN people /\ \A m \in DOMAIN people : m # n => people'[m] = people[m]
    BY <1>1, <1>6 DEF UpdateBeneficiary
  <2> QED BY <2>1, <2>2 DEF FormInv
<1>7. CASE \/ Leave \/ CloseModal \/ CreateProject \/ ImportProject \/ Answer
           \/ \E mode \in {"manual", "csv"} : OpenModal(mode)
           \/ \E new \in Imports : SetCsvImport(new)
           \/ \E n \in DOMAIN people, amount \in TypedAmounts : AddDraftPayout(n, amount)
           \/ \E i \in DOMAIN lines :
                 RemoveDraftPayout(i) \/ \E amount \in TypedAmounts : UpdateDraftAmount(i, amount)
  BY <1>2, <1>7 DEF Leave, CloseModal, CreateProject, ImportProject, Answer, SubmitAnswered,
     SubmitFailed, Submit, OpenModal, SetCsvImport, AddDraftPayout, RemoveDraftPayout,
     UpdateDraftAmount, EditDraft, apiVars
<1> QED BY <1>2, <1>3, <1>4, <1>5, <1>6, <1>7 DEF Next, vars, apiVars

\* A person created in the form has every detail of the country chosen, typed
\* for that country, and none of a country given up.
THEOREM FormIsClean == Spec => []NoForeignDetails
<1>1. FormInv => NoForeignDetails
  BY DEF FormInv, Whole, NoForeignDetails
<1> QED BY <1>1, InitForm, NextForm, Typing, PTL DEF Spec

\* No step but a submission writes a project, and none forgets an edit.
LEMMA NextReady == TypeOK /\ FormInv /\ ReadyForProjects /\ [Next]_vars => ReadyForProjects'
<1> SUFFICES ASSUME TypeOK, FormInv, ReadyForProjects, [Next]_vars PROVE ReadyForProjects'
  OBVIOUS
<1>1. CASE projects' = projects /\ edited \subseteq edited'
  BY <1>1 DEF ReadyForProjects
<1>2. ASSUME NEW draft, draft \in Seq([person : Nat, amount : Amounts]), Submit(draft)
      PROVE  ReadyForProjects'
  <2>1. edited' = edited
    BY <1>2 DEF Submit
  <2>2. CASE projects' = projects
    BY <1>1, <2>1, <2>2
  <2>3. CASE projects' = Append(projects, Judged(draft)) /\ \A i \in DOMAIN draft : draft[i].person \in DOMAIN people
    <3>1. projects \in Seq(Seq(JudgedLines)) /\ Judged(draft) \in Seq(JudgedLines)
      BY <1>2, JudgedType DEF TypeOK, JudgedLines
    <3> DEFINE R == Seq(JudgedLines)
    <3> HIDE DEF R
    <3>2. \A k \in DOMAIN projects' :
             (k \in DOMAIN projects /\ projects'[k] = projects[k]) \/ projects'[k] = Judged(draft)
      <4>1. projects \in Seq(R) /\ Judged(draft) \in R
        BY <3>1 DEF R
      <4> QED BY <2>3, <4>1, AppendProperties
    <3>3. ASSUME NEW i \in DOMAIN draft, Judged(draft)[i].bad, Judged(draft)[i].person > Len(Seeded)
          PROVE  Judged(draft)[i].amount = "outside" \/ Judged(draft)[i].person \in edited
      <4>1. HasErrors(draft[i]) /\ draft[i].person > Len(Seeded)
            /\ Judged(draft)[i].amount = draft[i].amount /\ Judged(draft)[i].person = draft[i].person
        BY <3>3 DEF Judged
      <4>2. draft[i].person \in DOMAIN people
        BY <2>3
      <4> QED BY <4>1, <4>2 DEF HasErrors, FormInv
    <3>4. DOMAIN Judged(draft) = DOMAIN draft
      BY DEF Judged
    <3> QED BY <2>1, <3>2, <3>3, <3>4 DEF ReadyForProjects
  <2> QED BY <1>2, <2>2, <2>3 DEF Submit
<1>3. CASE CreateProject \/ ImportProject
  <2> DEFINE R == [person : Nat, amount : Amounts]
  <2>1. csv \in Seq(R)
    BY ImportsAssumption DEF TypeOK
  <2>2. DraftLines \subseteq R /\ lines \in Seq(DraftLines)
    BY DEF DraftLines, Amounts, TypeOK
  <2>3. lines \in Seq(R)
    <3> HIDE DEF R
    <3> QED BY <2>2, SeqMonotonic
  <2> QED BY <1>2, <1>3, <2>1, <2>3 DEF CreateProject, ImportProject
<1>4. ASSUME NEW n, UpdateBeneficiary(n)
      PROVE  ReadyForProjects'
  BY <1>1, <1>4 DEF UpdateBeneficiary
<1>5. CASE \/ Leave \/ CloseModal \/ Answer \/ CreateEmployee
           \/ \E f \in Fields : \E text \in Typed(f) : UpdateField(f, text)
           \/ \E c \in Markets : ChooseCountry(c)
           \/ \E mode \in {"manual", "csv"} : OpenModal(mode)
           \/ \E new \in Imports : SetCsvImport(new)
           \/ \E n \in DOMAIN people, amount \in TypedAmounts : AddDraftPayout(n, amount)
           \/ \E i \in DOMAIN lines :
                 RemoveDraftPayout(i) \/ \E amount \in TypedAmounts : UpdateDraftAmount(i, amount)
  BY <1>1, <1>5 DEF Leave, CloseModal, Answer, SubmitAnswered, SubmitFailed, CreateEmployee,
     UpdateField, ChooseCountry, OpenModal, SetCsvImport, AddDraftPayout, RemoveDraftPayout,
     UpdateDraftAmount, EditDraft, apiVars
<1> QED BY <1>1, <1>3, <1>4, <1>5 DEF Next, vars, apiVars

\* Who came through the form is ready for a project, as the form said.
THEOREM FormKeepsItsWord == Spec => []ReadyForProjects
<1>1. Init => ReadyForProjects
  BY DEF Init, ReadyForProjects
<1> QED BY <1>1, InitForm, NextForm, NextReady, Typing, PTL DEF Spec

===============================================================================
