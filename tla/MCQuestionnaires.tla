-------------------------- MODULE MCQuestionnaires --------------------------
(* An instance of Questionnaires for TLC: each view is opened with a        *)
(* section that has an answer to every question, and all but the largest,   *)
(* "aboutMe", also with an empty one; in the housing the address of that    *)
(* one was given up by the checkbox alone, which leaves the place.          *)
EXTENDS Questionnaires

AllViews == {"aboutMe", "household", "housing", "income", "health"}

Known(fields, answers) == answers @@ Blank(fields)

Sections == [v \in AllViews |->
    CASE v = "aboutMe" ->
           {Known(AboutMe!StoredFields,
                  [name |-> "known", birth |-> "Rom", legalGender |-> "Female",
                   street |-> AboutMe!NoAddress, state |-> "known",
                   citizenship |-> "eu_5", nationality |-> "FR"])}
      [] v = "household" ->
           {Blank(Household!StoredFields),
            Known(Household!StoredFields,
                  [support |-> "none", displacedStatus |-> "LateResettler",
                   displacedIssued |-> "known", socialSecurityType |-> "None",
                   personsInHouseholdCount |-> "2", maritalStatus |-> "Married",
                   marriedSince |-> "known"])}
      [] v = "housing" ->
           {Known(Housing!StoredFields, [street |-> Housing!NoAddress, place |-> "known"]),
            Known(Housing!StoredFields,
                  [street |-> "known", place |-> "known", state |-> "Berlin",
                   accomodationType |-> "RentalApartment",
                   freeHousingRightHolder |-> "known", rentPaidUntil |-> "known",
                   costs |-> "known", area |-> "known", heatingType |-> "Gasheizung"]),
            Known(Housing!StoredFields,
                  [street |-> Housing!NoAddress, state |-> "known",
                   accomodationType |-> "RentalApartment", tenancyStatus |-> "MainTenant",
                   subletRoomCount |-> "1", subletRentIncome |-> "known",
                   rentPaidUntil |-> "known", costs |-> "known", area |-> "known",
                   heatingType |-> "Gasheizung"])}
      [] v = "income" ->
           {Blank(Income!StoredFields),
            Known(Income!StoredFields,
                  [awaiting |-> "yes", awaitingDetails |-> "known", previous |-> "no",
                   retirement |-> "5", reduced |-> "0", survivor |-> "0",
                   isCurrentlyEmployed |-> "yes", employer |-> "known",
                   employed |-> "0", self_employed |-> "5",
                   sick_pay |-> "0", alimony |-> "0", other |-> "0",
                   oneTime |-> "yes", oneTimeDetails |-> "known", oneTimeAmount |-> "5", monthlyIncome |-> "10",
                   bank |-> "known", iban |-> "known"])}
      [] v = "health" ->
           {Blank(Health!Fields),
            Known(Health!Fields,
                  [isCareDependent |-> "yes", hasInpatientFacilityAccommodation |-> "no",
                   abilityToWork |-> "PermanentlyDisabled", reducedWorkCapacity |-> "known",
                   hasDisabilityId |-> "yes", disabilityValidUntil |-> "known",
                   merkzeichen |-> "G", hasCostlyMedicalNutrition |-> "no"])}]

Writes == [v \in AllViews |->
    CASE v = "aboutMe"  -> {[name |-> "read", citizenship |-> "german", nationality |-> "DE"]}
      [] v = "household" -> {[socialSecurityType |-> "Statutory"], [personsInHouseholdCount |-> "3"]}
      [] v \in {"housing", "income"} -> {} \* their forms learn of no later profile
      [] v = "health"    -> {[abilityToWork |-> "FullyAble"]}]

Edits == [v \in AllViews |-> 1]
Saves == [v \in AllViews |-> 2]

=============================================================================
