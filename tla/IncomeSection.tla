--------------------------- MODULE IncomeSection ---------------------------
(***************************************************************************)
(* views/Application/ApplicationIncomeAssets: the questions, their steps   *)
(* and incomeAssetsHelpers.ts.  The profile keeps one row of income per    *)
(* line; a row without an amount is Open.  The details of a question, the  *)
(* employer with the job title and the names of the bank are one field     *)
(* each.                                                                   *)
(***************************************************************************)
EXTENDS FormFields

PensionLines == {"retirement", "reduced", "survivor"}
OtherLines   == {"sick_pay", "alimony", "other"}
WorkLines    == {"employed", "self_employed"}
Lines        == PensionLines \cup OtherLines \cup WorkLines
Open         == "open"
Amounts      == {Unset, "0", "5", "invalid"}
WorkTypes    == {"employed", "self_employed", "training", "unemployed", "none"}

Details == {"awaitingDetails", "previousDetails", "oneTimeDetails"}
Shared  == {"awaiting", "previous", "oneTime", "oneTimeAmount", "employer", "bank", "iban"} \cup Details
StoredFields == Shared \cup Lines \cup {"isCurrentlyEmployed", "monthlyIncome"}

\* What the form keeps: texts, the options chosen on two pages, an amount per line.
EmptyForm == [texts |-> [f \in Shared \cup {"employmentType", "employmentAmount"} |-> Unset],
              pensions |-> {}, others |-> {}, amounts |-> [l \in PensionLines \cup OtherLines |-> Unset]]

ToRow(amount) == IF amount = Unset THEN Open ELSE amount
ToText(row)   == IF row \in {Unset, Open, "0"} THEN Unset ELSE row

\* incomeRows: every line of the page, 0 for those not chosen; nothing chosen writes nothing.
RowsOfChosenLines(lines, chosen, amount) == [l \in lines \cap chosen |-> ToRow(amount[l])]
IncomeRows(lines, chosen, amount) ==
    IF chosen = {} THEN <<>>
    ELSE [l \in lines |-> IF l \in chosen THEN ToRow(amount[l]) ELSE "0"]

\* storedIncomeOptions and storedIncomeAmounts.
StoredOptions(lines, stored) ==
    LET known == {l \in lines : stored[l] # Unset}
        paid  == {l \in known : stored[l] # "0"}
    IN  IF known = {} THEN {} ELSE IF paid = {} THEN {"none"} ELSE paid
StoredAmounts(lines, stored) == [l \in lines |-> ToText(stored[l])]

\* employmentRows: a trainee earns on the line of the employees.
WithoutWork(type) == type \in {"unemployed", "none"}
EmploymentRows(type, amount) ==
    LET line == IF type = "self_employed" THEN "self_employed" ELSE "employed"
    IN  IF type = Unset THEN <<>>
        ELSE IncomeRows(WorkLines, IF WithoutWork(type) THEN {"none"} ELSE {line},
                        [l \in WorkLines |-> IF l = line THEN amount ELSE Unset])

\* totalIncome, or Unset while nothing is answered or a row has no amount.
TotalIncome(rows) ==
    IF rows = <<>> \/ \E l \in DOMAIN rows : rows[l] = Open THEN Unset
    ELSE IF \E l \in DOMAIN rows : rows[l] = "invalid" THEN NaN
    ELSE ToString(5 * Cardinality({l \in DOMAIN rows : rows[l] = "5"}))

\* initEmployment: the kind of work is read off the rows first, or off the answer alone.
StoredWorkByAnswer(stored) ==
    CASE stored["isCurrentlyEmployed"] = "yes" -> "employed"
      [] stored["isCurrentlyEmployed"] = "no"  -> "unemployed"
      [] OTHER -> Unset
StoredWork(stored) ==
    IF "self_employed" \in StoredOptions(WorkLines, stored) THEN "self_employed"
    ELSE StoredWorkByAnswer(stored)
StoredWorkAmount(stored) ==
    IF "self_employed" \in StoredOptions(WorkLines, stored)
    THEN ToText(stored["self_employed"]) ELSE ToText(stored["employed"])

\* initIncomeAssets: what an uploaded notice or bank card said goes into the fields.
Hydrate(stored, extracted) ==
    LET pensions == StoredOptions(PensionLines, stored)
        noticed  == extracted /\ pensions = {}
    IN  [texts |-> [f \in DOMAIN EmptyForm.texts |->
                       CASE f = "employmentType"   -> StoredWork(stored)
                         [] f = "employmentAmount" -> StoredWorkAmount(stored)
                         [] f \in {"bank", "iban"} -> IF extracted THEN "extracted" ELSE stored[f]
                         [] OTHER -> stored[f]],
         pensions |-> IF noticed THEN {"retirement"} ELSE pensions,
         others   |-> StoredOptions(OtherLines, stored),
         amounts  |-> [l \in PensionLines \cup OtherLines |->
                         IF noticed /\ l = "retirement" THEN "5" ELSE ToText(stored[l])]]

NextPage(form, page) == IF page = 7 THEN Overview ELSE page + 1

\* The first step of the rules that lacks an answer, as a page.
Answered(stored, question, details) ==
    \/ stored[question] = "no"
    \/ stored[question] = "yes" /\ Filled(stored, details)
FirstOpenPage(stored) ==
    IF ~Answered(stored, "awaiting", {"awaitingDetails"}) THEN 1
    ELSE IF ~Answered(stored, "previous", {"previousDetails"}) THEN 2
    ELSE IF \A l \in PensionLines : stored[l] = Unset THEN 3
    ELSE IF ~Answered(stored, "isCurrentlyEmployed", {"employer", "employed"}) THEN 4
    ELSE IF \E l \in OtherLines : stored[l] = Unset THEN 5
    ELSE IF ~Answered(stored, "oneTime", {"oneTimeDetails", "oneTimeAmount"}) THEN 6
    ELSE IF ~Filled(stored, {"bank", "iban"}) THEN 7
    ELSE Overview
\* getNextPage: the page of the step the server names, if it answers and is this far.
WizardPages(stored, page) == IF page = 7 THEN {} ELSE {FirstOpenPage(stored)}

PrevPage(form, page) == page - 1

\* A question that is not answered yes takes its details with it.
SaveQuestionKeepingDetails(form, question, details) == Restrict(form.texts, {question} \cup details)
SaveQuestion(form, question, details) ==
    [f \in {question} \cup details |->
        IF f = question \/ form.texts[question] = "yes" THEN form.texts[f] ELSE Unset]
SaveAwaiting(form) == SaveQuestion(form, "awaiting", {"awaitingDetails"})
SavePrevious(form) == SaveQuestion(form, "previous", {"previousDetails"})
SavePension(form)  == IncomeRows(PensionLines, form.pensions, form.amounts)
SaveWork(form) ==
    LET type == form.texts["employmentType"]
        employed == type # Unset /\ ~WithoutWork(type)
    IN  [f \in {"isCurrentlyEmployed", "employer"} |->
            IF f = "isCurrentlyEmployed" THEN IF type = Unset THEN Unset
                                              ELSE IF employed THEN "yes" ELSE "no"
            ELSE IF employed THEN form.texts["employer"] ELSE Unset]
SaveWorkRows(form) ==
    EmploymentRows(form.texts["employmentType"], form.texts["employmentAmount"])
SaveOther(form)   == IncomeRows(OtherLines, form.others, form.amounts)
SaveOneTime(form) == SaveQuestion(form, "oneTime", {"oneTimeDetails", "oneTimeAmount"})
\* The total of all rows on the screen goes with the bank details, if there is one.
SaveBank(form) ==
    LET total == TotalIncome(Merge(Merge(SavePension(form), SaveWorkRows(form)), SaveOther(form)))
        bank  == Restrict(form.texts, {"bank", "iban"})
    IN  IF total = Unset THEN bank ELSE Merge(bank, [f \in {"monthlyIncome"} |-> total])

\* Page 4 saves the person first and the rows only when that succeeded.
Payloads(form, page) ==
    CASE page = 1 -> <<SaveAwaiting(form)>> [] page = 2 -> <<SavePrevious(form)>>
      [] page = 3 -> <<SavePension(form)>>  [] page = 4 -> <<SaveWork(form), SaveWorkRows(form)>>
      [] page = 5 -> <<SaveOther(form)>>    [] page = 6 -> <<SaveOneTime(form)>>
      [] page = 7 -> <<SaveBank(form)>>

\* Disabled buttons, and the amounts and the IBAN that are refused.
ValidAmounts(chosen, form) == \A l \in chosen \ {"none"} : form.amounts[l] # "invalid"
Ready(form, page) ==
    CASE page = 3 -> form.pensions # {} /\ ValidAmounts(form.pensions, form)
      [] page = 4 -> form.texts["employmentType"] # Unset /\ form.texts["employmentAmount"] # "invalid"
      [] page = 5 -> ValidAmounts(form.others, form)
      [] page = 6 -> form.texts["oneTime"] = "yes" => form.texts["oneTimeAmount"] # "invalid"
      [] page = 7 -> Filled(form.texts, {"bank", "iban"}) /\ form.texts["iban"] # "invalid"
      [] OTHER -> TRUE

\* The forms after one edit of a text among some values.
Texts(form, field, values) == {[form EXCEPT !.texts[field] = v] : v \in values}
QuestionStep(form, question, details) ==
    Texts(form, question, YesNo)
    \cup IF form.texts[question] = "yes" THEN Texts(form, details, {Unset, "typed"}) ELSE {}
AwaitingBenefitsStep(form) == QuestionStep(form, "awaiting", "awaitingDetails")
PreviousBenefitsStep(form) == QuestionStep(form, "previous", "previousDetails")

\* toggleOption: none of these takes the others away, another option takes none away.
ToggleOption(chosen, option) ==
    IF option = "none" THEN {"none"}
    ELSE IF option \in chosen THEN chosen \ {option} ELSE (chosen \ {"none"}) \cup {option}
IncomeAmountField(form, chosen) ==
    {[form EXCEPT !.amounts[l] = a] : l \in chosen \ {"none"}, a \in Amounts}
PensionStep(form) ==
    {[form EXCEPT !.pensions = ToggleOption(@, o)] : o \in PensionLines \cup {"none"}}
    \cup IncomeAmountField(form, form.pensions)
OtherIncomeStep(form) ==
    {[form EXCEPT !.others = ToggleOption(@, o)] : o \in OtherLines \cup {"none"}}
    \cup IncomeAmountField(form, form.others)
EmploymentStep(form) ==
    Texts(form, "employmentType", WorkTypes)
    \cup IF form.texts["employmentType"] = Unset \/ WithoutWork(form.texts["employmentType"]) THEN {}
         ELSE Texts(form, "employmentAmount", Amounts) \cup Texts(form, "employer", {Unset, "typed"})
OneTimePaymentsStep(form) ==
    QuestionStep(form, "oneTime", "oneTimeDetails")
    \cup IF form.texts["oneTime"] = "yes" THEN Texts(form, "oneTimeAmount", Amounts) ELSE {}
BankDetailsStep(form) ==
    Texts(form, "bank", {Unset, "typed"}) \cup Texts(form, "iban", {Unset, "typed", "invalid"})

Edits(form, page) ==
    CASE page = 1 -> AwaitingBenefitsStep(form) [] page = 2 -> PreviousBenefitsStep(form)
      [] page = 3 -> PensionStep(form)          [] page = 4 -> EmploymentStep(form)
      [] page = 5 -> OtherIncomeStep(form)      [] page = 6 -> OneTimePaymentsStep(form)
      [] page = 7 -> BankDetailsStep(form)

\* Work without an income is shown as that of an employee who gave no amount.
WorksForNothing(stored) ==
    stored["isCurrentlyEmployed"] = "yes" /\ \A l \in WorkLines : stored[l] \in {Unset, "0"}
\* A detail is only stored with the answer it belongs to, and one kind of work earns.
NoOrphans(stored) ==
    /\ stored["awaiting"] # "yes" => stored["awaitingDetails"] = Unset
    /\ stored["previous"] # "yes" => stored["previousDetails"] = Unset
    /\ stored["oneTime"] # "yes" => stored["oneTimeDetails"] = Unset /\ stored["oneTimeAmount"] = Unset
    /\ stored["isCurrentlyEmployed"] # "yes" => stored["employer"] = Unset
    /\ \E l \in WorkLines : stored[l] \in {Unset, "0"}
=============================================================================
