---------------------------- MODULE BenefitRules ----------------------------
(***************************************************************************)
(* store/benefitRules.ts: which benefits the answers of the eligibility    *)
(* check point to.  Answers are a function from some of the keys of        *)
(* EligibilityCheck; a key that is not in its domain is undefined.  A date *)
(* is <<year, month, day>>, an amount is in euros.                         *)
(***************************************************************************)
EXTENDS Integers, Sequences, SequencesExt

Unlimited == 1000000    \* Infinity: above every amount

Regelbedarf == [single |-> 563, partner |-> 506, adultChild |-> 451,
                age14to17 |-> 471, age6to13 |-> 390, age0to5 |-> 357]
SgbIIAllowance(age) == CASE age <= 30 -> 5000
                         [] age > 30 /\ age <= 40 -> 10000
                         [] age > 40 /\ age <= 50 -> 12500
                         [] age > 50 -> 20000
SgbXIIAllowance == 10000
KizMinGross == [singleParent |-> 600, couple |-> 900]
AssetBandRange == [UNDER_5000           |-> [min |-> 0, max |-> 5000],
                   FROM_5000_TO_10000   |-> [min |-> 5000, max |-> 10000],
                   FROM_10000_TO_12500  |-> [min |-> 10000, max |-> 12500],
                   FROM_12500_TO_20000  |-> [min |-> 12500, max |-> 20000],
                   OVER_20000           |-> [min |-> 20000, max |-> Unlimited]]

Is(a, key, value) == key \in DOMAIN a /\ a[key] = value
Amount(a, key) == IF key \in DOMAIN a THEN a[key] ELSE 0

MonthsOn(dob, today) ==
    (today[1] - dob[1]) * 12 + (today[2] - dob[2]) - (IF today[3] < dob[3] THEN 1 ELSE 0)
AgeOn(dob, today) ==
    today[1] - dob[1] - (IF \/ today[2] < dob[2]
                            \/ today[2] = dob[2] /\ today[3] < dob[3] THEN 1 ELSE 0)
RetirementAgeInMonths(year) ==
    CASE year <= 1946 -> 65 * 12
      [] year > 1946 /\ year <= 1958 -> 65 * 12 + (year - 1946)
      [] year > 1958 /\ year <= 1963 -> 66 * 12 + (year - 1958) * 2
      [] year > 1963 -> 67 * 12
HasReachedRetirementAge(dob, today) == MonthsOn(dob, today) >= RetirementAgeInMonths(dob[1])
Retired(a, today) == "dateOfBirth" \in DOMAIN a /\ HasReachedRetirementAge(a.dateOfBirth, today)

IsCouple(a) == \/ Is(a, "householdComposition", "COUPLE_NO_CHILDREN")
               \/ Is(a, "householdComposition", "COUPLE_WITH_CHILDREN")
HasChildren(a) == \/ Is(a, "householdComposition", "SINGLE_PARENT")
                  \/ Is(a, "householdComposition", "COUPLE_WITH_CHILDREN")
Adults(a) == IF IsCouple(a) THEN 2 ELSE 1
AgeOfAsker(a, today) == IF "dateOfBirth" \in DOMAIN a THEN AgeOn(a.dateOfBirth, today) ELSE 0
ChildAges(a, today) ==
    IF HasChildren(a) /\ "children" \in DOMAIN a
    THEN [i \in DOMAIN a.children |-> AgeOn(a.children[i], today)]
    ELSE <<>>
ChildNeed(age) == CASE age < 6 -> Regelbedarf.age0to5
                    [] age >= 6 /\ age < 14 -> Regelbedarf.age6to13
                    [] age >= 14 /\ age < 18 -> Regelbedarf.age14to17
                    [] age >= 18 -> Regelbedarf.adultChild
StandardNeed(a, today) ==
    LET ages == ChildAges(a, today)
        need[n \in 0..Len(ages)] ==
            IF n = 0 THEN IF IsCouple(a) THEN 2 * Regelbedarf.partner ELSE Regelbedarf.single
            ELSE need[n - 1] + ChildNeed(ages[n])
    IN  need[Len(ages)]

Finding(status, reason) == [status |-> status, reason |-> reason]

MeansTest(a, today, allowance) ==
    LET needs == StandardNeed(a, today) + Amount(a, "monthlyWarmRent")
        band  == AssetBandRange[IF "assetsBand" \in DOMAIN a THEN a.assetsBand ELSE "UNDER_5000"]
        covered == Amount(a, "monthlyNetHouseholdIncome") >= needs
    IN  CASE covered -> Finding("NO", "income_covers_needs")
          [] ~covered /\ band.min >= allowance -> Finding("NO", "assets_too_high")
          [] ~covered /\ band.min < allowance /\ band.max > allowance ->
                Finding("POSSIBLE", "assets_near_limit")
          [] OTHER -> Finding("LIKELY", "income_below_needs")

\* Without the question of the age.
AssessGrundsicherungsgeldAtAnyAge(a, today) ==
    IF Is(a, "workCapacity", "PERMANENTLY_REDUCED")
    THEN Finding("NO", "permanently_unable_to_work")
    ELSE MeansTest(a, today, SgbIIAllowance(AgeOfAsker(a, today)) * Adults(a))
AssessGrundsicherungsgeld(a, today) ==
    LET means == MeansTest(a, today, SgbIIAllowance(AgeOfAsker(a, today)) * Adults(a))
    IN  IF Retired(a, today) THEN Finding("NO", "retirement_age_reached")
        ELSE IF Is(a, "workCapacity", "PERMANENTLY_REDUCED")
        THEN Finding("NO", "permanently_unable_to_work")
        ELSE IF Is(a, "workCapacity", "TEMPORARILY_REDUCED") /\ means.status = "LIKELY"
        THEN Finding("POSSIBLE", "temporarily_unable_to_work")
        ELSE means

AssessGrundsicherungAlter(a, today) ==
    IF \/ Retired(a, today)
       \/ AgeOfAsker(a, today) >= 18 /\ Is(a, "workCapacity", "PERMANENTLY_REDUCED")
    THEN MeansTest(a, today, SgbXIIAllowance * Adults(a))
    ELSE Finding("NO", "not_retired_nor_unable_to_work")

\* The share of 0.3 is compared exactly, as 3 parts in 10.
AssessWohngeldWithRentInTheNeed(a, today) ==
    LET net == Amount(a, "monthlyNetHouseholdIncome")
    IN  IF net <= StandardNeed(a, today) + Amount(a, "monthlyWarmRent")
        THEN Finding("NO", "income_too_low_for_wohngeld")
        ELSE IF 10 * Amount(a, "monthlyWarmRent") > 3 * net
        THEN Finding("POSSIBLE", "high_rent_share")
        ELSE Finding("NO", "low_rent_share")
AssessWohngeld(a, today) ==
    LET net == Amount(a, "monthlyNetHouseholdIncome")
    IN  IF net < StandardNeed(a, today) THEN Finding("NO", "income_too_low_for_wohngeld")
        ELSE IF 10 * Amount(a, "monthlyWarmRent") > 3 * net
        THEN Finding("POSSIBLE", "high_rent_share")
        ELSE Finding("NO", "low_rent_share")

AssessKinderzuschlag(a, today) ==
    LET ages == ChildAges(a, today)
        minimum == IF IsCouple(a) THEN KizMinGross.couple ELSE KizMinGross.singleParent
    IN  IF \A i \in DOMAIN ages : ages[i] >= 25 THEN Finding("NO", "no_children")
        ELSE IF Amount(a, "monthlyGrossIncome") < minimum
        THEN Finding("NO", "gross_below_minimum")
        ELSE Finding("POSSIBLE", "gross_above_minimum")

NeedsResidenceHint(a) ==
    Is(a, "citizenship", "NON_EU") /\ ~Is(a, "hasSecureResidenceStatus", "YES")

Benefits == {"GRUNDSICHERUNGSGELD", "GRUNDSICHERUNG_ALTER", "WOHNGELD", "KINDERZUSCHLAG"}

\* An existing benefit, then an unclear residence status, makes a likely claim a possible one.
Soften(a, f) ==
    IF f.status # "LIKELY" THEN f
    ELSE IF Is(a, "receivesBenefits", "YES") THEN Finding("POSSIBLE", "already_receives_benefits")
    ELSE IF NeedsResidenceHint(a) THEN Finding("POSSIBLE", "residence_status_unclear")
    ELSE f

Assess(a, benefit, today) ==
    CASE benefit = "GRUNDSICHERUNGSGELD"  -> Soften(a, AssessGrundsicherungsgeld(a, today))
      [] benefit = "GRUNDSICHERUNG_ALTER" -> Soften(a, AssessGrundsicherungAlter(a, today))
      [] benefit = "WOHNGELD"             -> Soften(a, AssessWohngeld(a, today))
      [] benefit = "KINDERZUSCHLAG"       -> Soften(a, AssessKinderzuschlag(a, today))
Offered(a, benefit, today) == Assess(a, benefit, today).status # "NO"

=============================================================================
