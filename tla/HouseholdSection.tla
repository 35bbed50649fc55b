------------------------- MODULE HouseholdSection -------------------------
(***************************************************************************)
(* views/Application/ApplicationHousehold/ApplicationHouseholdQuestions.   *)
(* support stands for the custodian and the guardian, displacedIssued for  *)
(* the date and the place of the certificate.                              *)
(***************************************************************************)
EXTENDS FormFields

StoredFields == {"support", "displacedStatus", "displacedIssued", "socialSecurityType",
                 "healthInsuranceStatus", "personsInHouseholdCount", "maritalStatus", "marriedSince"}
Fields == StoredFields \cup {"displacedOption", "checkSocial", "checkHealth", "checkNone"}
Supports == {"custodian", "guardian", "none"}

\* The state the view is mounted with.
EmptyForm == [f \in Fields |-> CASE f \in {"checkSocial", "checkHealth", "checkNone"} -> "no"
                                 [] f = "personsInHouseholdCount" -> "1"
                                 [] OTHER -> Unset]

IsSet(condition) == IF condition THEN "yes" ELSE "no"
DisplacedOption(status) ==
    CASE status = Unset -> Unset [] status = "none" -> "no" [] OTHER -> "yes"

\* What the profile says of every field of the form.
ServerSays(stored) == [f \in Fields |->
    CASE f \in StoredFields     -> stored[f]
      [] f = "displacedOption"  -> DisplacedOption(stored["displacedStatus"])
      [] f = "checkSocial"      -> IsSet(stored["socialSecurityType"] \notin {Unset, "None"})
      [] f = "checkHealth"      -> IsSet(stored["healthInsuranceStatus"] # Unset)
      [] f = "checkNone"        -> IsSet(stored["socialSecurityType"] = "None"
                                         /\ stored["healthInsuranceStatus"] = Unset)]
Shown(f, value) == IF f = "personsInHouseholdCount" /\ value = Unset THEN "1" ELSE value

\* The next profile fills an empty input only.
FillsEmpty(local, prev, new) == new # prev /\ local = Unset
\* shouldUpdate once the form is initialised.
ShouldUpdate(local, prev, new) == new # prev /\ local \in {prev, new}

\* A status that says none, or nothing, never replaces the one on the screen.
Keeps(f, stored) == f = "displacedStatus" /\ stored[f] \in {Unset, "none"}

Hydrate(stored) ==
    [f \in Fields |-> IF Keeps(f, stored) THEN Unset ELSE Shown(f, ServerSays(stored)[f])]
Sync(form, prev, new) ==
    [f \in Fields |->
        IF ~Keeps(f, new) /\ ShouldUpdate(form[f], ServerSays(prev)[f], ServerSays(new)[f])
        THEN Shown(f, ServerSays(new)[f]) ELSE form[f]]

NextPage(form, page) == IF page = 5 THEN Overview ELSE page + 1
PrevPage(form, page) == page - 1

SaveSupport(form) == [f \in {"support"} |-> form["support"]]
SaveDisplaced(form) ==
    IF form["displacedOption"] = "yes"
    THEN Restrict(form, {"displacedStatus", "displacedIssued"})
    ELSE [f \in {"displacedStatus", "displacedIssued"} |->
            IF f = "displacedStatus" THEN "none" ELSE Unset]
SaveInsurance(form) == [f \in {"socialSecurityType", "healthInsuranceStatus"} |->
    IF f = "socialSecurityType"
    THEN IF form["checkNone"] = "yes" \/ form["checkSocial"] = "no" THEN "None" ELSE form[f]
    ELSE IF form["checkNone"] = "yes" \/ form["checkHealth"] = "no" THEN Unset ELSE form[f]]
SaveCount(form) == Restrict(form, {"personsInHouseholdCount"})
\* The marital status alone, with the date left as it is stored.
SaveMaritalAlone(form) ==
    Restrict(form, {"maritalStatus"} \cup
                   (IF form["maritalStatus"] = "Married" THEN {"marriedSince"} ELSE {}))
SaveMarital(form) == [f \in {"maritalStatus", "marriedSince"} |->
    IF f = "marriedSince" /\ form["maritalStatus"] # "Married" THEN Unset ELSE form[f]]

Payload(form, page) ==
    CASE page = 1 -> SaveSupport(form)   [] page = 2 -> SaveDisplaced(form)
      [] page = 3 -> SaveInsurance(form) [] page = 4 -> SaveCount(form)
      [] page = 5 -> SaveMarital(form)

\* The buttons that are disabled, and the save that returns early.
Ready(form, page) ==
    CASE page = 1 -> form["support"] # Unset
      [] page = 2 -> \/ form["displacedOption"] = "no"
                     \/ /\ form["displacedOption"] = "yes"
                        /\ Filled(form, {"displacedStatus", "displacedIssued"})
      [] page = 3 -> /\ \E f \in {"checkSocial", "checkHealth", "checkNone"} : form[f] = "yes"
                     /\ form["checkSocial"] = "yes" => form["socialSecurityType"] # Unset
                     /\ form["checkHealth"] = "yes" => form["healthInsuranceStatus"] # Unset
      [] page = 4 -> TRUE
      [] page = 5 -> form["maritalStatus"] # Unset

SupportPage(form) == Choose(form, "support", Supports)
DisplacedPage(form) ==
    Choose(form, "displacedOption", YesNo)
    \cup IF form["displacedOption"] # "yes" THEN {}
         ELSE Choose(form, "displacedStatus", {Unset, "LateResettler"})
              \cup Type(form, "displacedIssued")

Toggled(form, check) == IF form[check] = "yes" THEN "no" ELSE "yes"
\* Nothing insured takes the other choices away; another choice takes it away.
ToggleInsurance(form, check) ==
    [form EXCEPT ![check] = Toggled(form, check), !["checkNone"] = "no"]
ToggleNone(form) ==
    IF form["checkNone"] = "yes" THEN [form EXCEPT !["checkNone"] = "no"]
    ELSE [form EXCEPT !["checkNone"] = "yes", !["checkSocial"] = "no", !["checkHealth"] = "no",
                      !["socialSecurityType"] = Unset, !["healthInsuranceStatus"] = Unset]
InsurancePage(form) ==
    {ToggleInsurance(form, "checkSocial"), ToggleInsurance(form, "checkHealth"), ToggleNone(form)}
    \cup (IF form["checkSocial"] = "yes"
          THEN Choose(form, "socialSecurityType", {Unset, "Statutory"}) ELSE {})
    \cup (IF form["checkHealth"] = "yes"
          THEN Choose(form, "healthInsuranceStatus", {Unset, "Pensioner"}) ELSE {})

\* At least one person, whatever is typed.
CountPage(form) == Choose(form, "personsInHouseholdCount", {"1", "2"})
MaritalPage(form) ==
    Choose(form, "maritalStatus", {"Single", "Married"})
    \cup (IF form["maritalStatus"] = "Married" THEN Type(form, "marriedSince") ELSE {})

Edits(form, page) ==
    CASE page = 1 -> SupportPage(form)   [] page = 2 -> DisplacedPage(form)
      [] page = 3 -> InsurancePage(form) [] page = 4 -> CountPage(form)
      [] page = 5 -> MaritalPage(form)

\* The inputs of a page that a later profile always reaches.
Inputs(page) ==
    CASE page = 1 -> {"support"} [] page = 2 -> {"displacedOption", "displacedIssued"}
      [] page = 3 -> {"checkSocial", "checkHealth", "checkNone", "socialSecurityType", "healthInsuranceStatus"}
      [] page = 4 -> {"personsInHouseholdCount"} [] page = 5 -> {"maritalStatus", "marriedSince"}

\* A detail is only stored with the answer it belongs to.
NoOrphans(stored) ==
    /\ stored["displacedStatus"] \in {Unset, "none"} => stored["displacedIssued"] = Unset
    /\ stored["maritalStatus"] # "Married" => stored["marriedSince"] = Unset
=============================================================================
