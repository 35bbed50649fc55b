--------------------------- MODULE HealthSection ---------------------------
(***************************************************************************)
(* views/Application/ApplicationHealth/ApplicationHealthQuestions.tsx.     *)
(* inpatientFacility stands for the move-in date and the last residence,   *)
(* reducedWorkCapacity for its start date and its reason.                  *)
(***************************************************************************)
EXTENDS FormFields

Fields == {"isCareDependent", "hasInpatientFacilityAccommodation", "inpatientFacility",
           "abilityToWork", "reducedWorkCapacity", "reducedWorkCapacityEndDate",
           "hasDisabilityId", "disabilityValidUntil", "merkzeichen", "hasCostlyMedicalNutrition"}
Abilities == {"FullyAble", "TemporarilyDisabled", "PermanentlyDisabled"}

\* hydrateHealthData, and the effect that takes it over once.
Hydrate(stored) == [f \in Fields |-> stored[f]]

NextPage(form, page) ==
    CASE page = 1 -> IF form["isCareDependent"] = "yes" THEN 2 ELSE 4
      [] page = 2 -> IF form["hasInpatientFacilityAccommodation"] = "yes" THEN 3 ELSE 4
      [] page = 3 -> 4
      [] page = 4 -> CASE form["abilityToWork"] = "TemporarilyDisabled" -> 5
                       [] form["abilityToWork"] = "PermanentlyDisabled" -> 6
                       [] OTHER -> 8
      [] page = 6 -> IF form["hasDisabilityId"] = "yes" THEN 7 ELSE 8
      [] page \in {5, 7} -> 8
      [] OTHER -> Overview

\* Back from the last page, when only the ability to work is looked at.
PrevPageSkippingDisability(form, page) ==
    CASE page = 8 -> CASE form["abilityToWork"] = "TemporarilyDisabled" -> 5
                       [] form["abilityToWork"] = "PermanentlyDisabled" -> 6
                       [] OTHER -> 4
      [] page = 7 -> 6
      [] page \in {5, 6} -> 4
      [] page = 4 -> IF form["isCareDependent"] # "yes" THEN 1
                     ELSE IF form["hasInpatientFacilityAccommodation"] = "yes" THEN 3 ELSE 2
      [] page = 3 -> 2
      [] page = 2 -> 1
      [] OTHER -> Intro
PrevPage(form, page) ==
    CASE page = 8 -> CASE form["abilityToWork"] = "TemporarilyDisabled" -> 5
                       [] form["abilityToWork"] = "PermanentlyDisabled" ->
                              IF form["hasDisabilityId"] = "yes" THEN 7 ELSE 6
                       [] OTHER -> 4
      [] page = 7 -> 6
      [] page \in {5, 6} -> 4
      [] page = 4 -> IF form["isCareDependent"] # "yes" THEN 1
                     ELSE IF form["hasInpatientFacilityAccommodation"] = "yes" THEN 3 ELSE 2
      [] page = 3 -> 2
      [] page = 2 -> 1
      [] OTHER -> Intro

\* saveCurrentPageData: the fields of the page; no mark chosen is not sent at all.
SentFields(page) ==
    CASE page = 1 -> {"isCareDependent"}
      [] page = 2 -> {"hasInpatientFacilityAccommodation"}
      [] page = 3 -> {"inpatientFacility"}
      [] page = 4 -> {"abilityToWork"}
      [] page = 5 -> {"reducedWorkCapacity", "reducedWorkCapacityEndDate"}
      [] page = 6 -> {"reducedWorkCapacity", "hasDisabilityId"}
      [] page = 7 -> {"disabilityValidUntil", "merkzeichen"}
      [] page = 8 -> {"hasCostlyMedicalNutrition"}
Payload(form, page) ==
    Sanitized(Restrict(form, SentFields(page) \ {f \in {"merkzeichen"} : form[f] = Unset}))

\* isNextDisabled, negated: the mark is optional.
Ready(form, page) == Filled(form, SentFields(page) \ {"merkzeichen"})

CarePage(form)      == Choose(form, "isCareDependent", YesNo)
InpatientPage(form) == Choose(form, "hasInpatientFacilityAccommodation", YesNo)
FacilityPage(form)  == Type(form, "inpatientFacility")
CapacityPage(form)  == Choose(form, "abilityToWork", Abilities)
TemporaryPage(form) == Type(form, "reducedWorkCapacity") \cup Type(form, "reducedWorkCapacityEndDate")
PermanentPage(form) == Type(form, "reducedWorkCapacity") \cup Choose(form, "hasDisabilityId", YesNo)
DisabilityPage(form) ==
    Type(form, "disabilityValidUntil") \cup Choose(form, "merkzeichen", {Unset, "G"})
NutritionPage(form) == Choose(form, "hasCostlyMedicalNutrition", YesNo)

Edits(form, page) ==
    CASE page = 1 -> CarePage(form)      [] page = 2 -> InpatientPage(form)
      [] page = 3 -> FacilityPage(form)  [] page = 4 -> CapacityPage(form)
      [] page = 5 -> TemporaryPage(form) [] page = 6 -> PermanentPage(form)
      [] page = 7 -> DisabilityPage(form) [] page = 8 -> NutritionPage(form)
=============================================================================
