-------------------------- MODULE HousingSection --------------------------
(***************************************************************************)
(* views/Application/ApplicationHousing/ApplicationHousingQuestions.tsx.   *)
(* place stands for the house number, the postal code and the city, costs  *)
(* for the rent and the costs next to it, area for the area and the rooms. *)
(* Page 1.5 is 15.                                                         *)
(***************************************************************************)
EXTENDS FormFields

NoAddress   == "ohneFesteAdresse"
FreeLodging == "FreeLodging"

Housing == {"accomodationType", "tenancyStatus", "landlordName", "freeHousingRightHolder",
            "subletRoomCount", "subletRentIncome", "rentPaidUntil", "costs", "area", "heatingType"}
StoredFields == {"street", "place", "state"} \cup Housing
Fields == {"street", "place", "noFixedAddress", "lastFixedAddress"} \cup Housing

\* The default values; what a contract said is there until a profile arrives.
FormAtMount(extracted) == [f \in Fields |->
    CASE f = "noFixedAddress"   -> "no"
      [] f = "accomodationType" -> "RentalApartment"
      [] f = "tenancyStatus"    -> "MainTenant"
      [] f \in {"costs", "area", "landlordName"} /\ extracted -> "extracted"
      [] OTHER -> Unset]

OrDefault(value, default) == IF value = Unset THEN default ELSE value
Hydrate(stored) ==
    LET homeless == stored["street"] = NoAddress
    IN  [f \in Fields |->
            CASE f = "street"           -> IF homeless THEN Unset ELSE stored["street"]
              [] f = "noFixedAddress"   -> IF homeless THEN "yes" ELSE "no"
              [] f = "lastFixedAddress" -> stored["state"]
              [] f = "accomodationType" -> OrDefault(stored[f], "RentalApartment")
              [] f = "tenancyStatus"    -> IF stored["freeHousingRightHolder"] # Unset THEN FreeLodging
                                           ELSE OrDefault(stored[f], "MainTenant")
              [] OTHER -> stored[f]]

NextPage(form, page) ==
    CASE page = 1  -> IF form["noFixedAddress"] = "yes" THEN 15 ELSE 2
      [] page = 15 -> 2
      [] page = 2  -> CASE form["accomodationType"] = "RentalApartment" -> 3
                        [] form["accomodationType"] = "OwnHome" -> 4
                        [] OTHER -> Overview
      [] page = 3  -> CASE form["tenancyStatus"] = "MainTenant" -> 4
                        [] form["tenancyStatus"] = "Subtenant" -> 5
                        [] OTHER -> Overview
      [] page = 4  -> IF form["accomodationType"] = "OwnHome" THEN 6 ELSE 5
      [] page \in 5..7 -> page + 1
      [] OTHER -> Overview

PrevPage(form, page) ==
    CASE page = 8 -> 7
      [] page = 7 -> 6
      [] page = 6 -> IF form["accomodationType"] = "OwnHome" THEN 4 ELSE 5
      [] page = 5 -> IF /\ form["accomodationType"] = "RentalApartment"
                        /\ form["tenancyStatus"] = "MainTenant" THEN 4 ELSE 3
      [] page = 4 -> IF form["accomodationType"] = "OwnHome" THEN 2 ELSE 3
      [] page = 3 -> 2
      [] page = 2 -> IF form["noFixedAddress"] = "yes" THEN 15 ELSE 1
      [] page = 15 -> 1
      [] OTHER -> Intro

\* savePageData.
SaveAddress(form) ==
    IF form["noFixedAddress"] = "yes"
    THEN [f \in {"street", "place", "state"} |->
            CASE f = "street" -> NoAddress [] f = "place" -> Unset [] OTHER -> form["lastFixedAddress"]]
    ELSE [f \in {"street", "place", "state"} |-> IF f = "state" THEN "Berlin" ELSE form[f]]
SaveLastAddress(form) == [f \in {"state"} |-> form["lastFixedAddress"]]
\* Lodging for free is stored as the holder's name alone.
SaveTenancy(form) ==
    LET free == form["tenancyStatus"] = FreeLodging
    IN  [f \in {"tenancyStatus", "landlordName", "freeHousingRightHolder"} |->
            IF (f = "freeHousingRightHolder") = free THEN form[f] ELSE Unset]
SentFields(page) ==
    CASE page = 2 -> {"accomodationType"} [] page = 4 -> {"subletRoomCount", "subletRentIncome"}
      [] page = 5 -> {"rentPaidUntil"}    [] page = 6 -> {"costs"}
      [] page = 7 -> {"area"}             [] page = 8 -> {"heatingType"}
Payload(form, page) ==
    CASE page = 1 -> SaveAddress(form) [] page = 15 -> SaveLastAddress(form)
      [] page = 3 -> SaveTenancy(form) [] OTHER -> Restrict(form, SentFields(page))

\* Free lodging without a holder is refused; Next is never disabled.
Ready(form, page) ==
    page = 3 /\ form["tenancyStatus"] = FreeLodging => form["freeHousingRightHolder"] # Unset

\* An option is saved as it is chosen: the form after it and what is saved.
Chosen(form, field, option, data) == [form |-> [form EXCEPT ![field] = option], data |-> data]
One(field, value) == [f \in {field} |-> value]
\* A checkbox: it turns the answer round.
AddressChoices(form) ==
    {IF form["noFixedAddress"] = "yes" THEN Chosen(form, "noFixedAddress", "no", One("street", Unset))
     ELSE Chosen(form, "noFixedAddress", "yes", One("street", NoAddress))}
AccomodationChoices(form) ==
    {Chosen(form, "accomodationType", a, One("accomodationType", a)) :
        a \in {"RentalApartment", "OwnHome", "Relative"}}
TenancyChoices(form) ==
    {Chosen(form, "tenancyStatus", s, Merge(One("tenancyStatus", s), One("freeHousingRightHolder", Unset))) :
        s \in {"MainTenant", "Subtenant"}}
SubletChoices(form) ==
    {Chosen(form, "subletRoomCount", n, One("subletRoomCount", n)) : n \in {"0", "1"}}
ArrearsChoices(form) ==
    {Chosen(form, "rentPaidUntil", d, One("rentPaidUntil", d)) : d \in {Unset, "today"}}
HeatingChoices(form) ==
    {Chosen(form, "heatingType", h, One("heatingType", h)) : h \in {"Gasheizung", "Ofenheizung"}}
Choices(form, page) ==
    CASE page = 1 -> AddressChoices(form)  [] page = 2 -> AccomodationChoices(form)
      [] page = 3 -> TenancyChoices(form)  [] page = 4 -> SubletChoices(form)
      [] page = 5 -> ArrearsChoices(form)  [] page = 8 -> HeatingChoices(form)
      [] OTHER -> {}

\* A choice may bring back to the screen what an earlier one had blanked in the profile.
BringsBack(form, new) ==
    \/ /\ form["noFixedAddress"] = "yes" /\ new["noFixedAddress"] = "no"
       /\ ~(form["street"] = Unset /\ form["place"] = Unset)
    \/ /\ form["tenancyStatus"] = FreeLodging /\ new["tenancyStatus"] # FreeLodging
       /\ form["landlordName"] # Unset

\* The inputs a page shows, and what typing into them, or choosing free lodging, leaves.
Inputs(form, page) ==
    CASE page = 1 /\ form["noFixedAddress"] = "no" -> {"street", "place"}
      [] page = 15 -> {"lastFixedAddress"}
      [] page = 3 /\ form["tenancyStatus"] = "Subtenant" -> {"landlordName"}
      [] page = 3 /\ form["tenancyStatus"] = FreeLodging -> {"freeHousingRightHolder"}
      [] page = 4 /\ form["subletRoomCount"] \in {"1", "typed"} -> {"subletRoomCount", "subletRentIncome"}
      [] page = 5 /\ form["rentPaidUntil"] # Unset -> {"rentPaidUntil"}
      [] page = 6 -> {"costs"}
      [] page = 7 -> {"area"}
      [] OTHER -> {}
Numbers == {"subletRoomCount", "subletRentIncome", "costs", "area"}
TypeInto(form, input) ==
    Choose(form, input, {"typed", IF input \in Numbers THEN NaN ELSE Unset})
Typing(form, page) == UNION {TypeInto(form, i) : i \in Inputs(form, page)}
Edits(form, page) ==
    Typing(form, page)
    \cup (IF page = 3 THEN Choose(form, "tenancyStatus", {FreeLodging}) ELSE {})

\* Leaving an input saves it; the holder goes with the tenancy it replaces, a blank one stays.
Blurs(form, page) ==
    {CASE f = "lastFixedAddress" -> One("state", form[f])
       [] f = "freeHousingRightHolder" -> SaveTenancy(form)
       [] OTHER -> One(f, form[f]) :
        f \in {i \in Inputs(form, page) : i = "freeHousingRightHolder" => form[i] # Unset}}

\* What the pages fill in rather than ask for: the state, which is Berlin for an address and the
\* last fixed address without one, the place of somebody who has none, and a default that no
\* answer replaced yet.
FilledIn(form, stored) ==
    {"state"} \cup (IF form["noFixedAddress"] = "yes" THEN {"place"} ELSE {})
    \cup {f \in {"accomodationType", "tenancyStatus"} :
            stored[f] = Unset /\ form[f] = FormAtMount(FALSE)[f]}

\* Whoever lodges for free is no tenant and has no landlord.
NoOrphans(stored) ==
    stored["freeHousingRightHolder"] # Unset =>
        stored["tenancyStatus"] = Unset /\ stored["landlordName"] = Unset
=============================================================================
