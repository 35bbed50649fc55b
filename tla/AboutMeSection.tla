-------------------------- MODULE AboutMeSection --------------------------
(***************************************************************************)
(* views/Application/ApplicationAboutMe/ApplicationAboutMeQuestions.tsx.   *)
(* name stands for both names, birth for the date and the place of birth   *)
(* (the place is what matters), place for the house number, the postal     *)
(* code and the city, citizenship for the German citizenship and the       *)
(* residence status.                                                       *)
(***************************************************************************)
EXTENDS FormFields

NoAddress == "ohneFesteAdresse"

StoredFields == {"name", "birth", "legalGender", "street", "place", "state",
                 "citizenship", "nationality"}
Fields == {"name", "birth", "legalGender", "street", "place", "addressInput", "noFixedAddress",
           "lastFixedAddress", "citizenship", "nationality"}
EmptyForm == [f \in Fields |-> IF f = "noFixedAddress" THEN "no" ELSE Unset]

Or(value, other) == IF value = Unset THEN other ELSE value

\* What an uploaded identity card says: parseOcrGender, parseOcrAddress, getCorrectedDob.
Ocr(extracted, f) ==
    IF ~extracted THEN Unset
    ELSE CASE f \in {"name", "street", "place"} -> "read"
           [] f = "birth" -> "Berlin"
           [] f = "legalGender" -> "Female"

\* checkIsGerman: the nationality on the card, else a place of birth in Germany.
IsGerman(stored, extracted) == extracted \/ stored["birth"] = "Berlin"

\* buildFullAddress, of a street and what follows it, and parseAddressString.
FullAddress(street, place) ==
    IF street \in {Unset, NoAddress} THEN Unset
    ELSE IF place = Unset THEN "streetOnly" ELSE street
ParsedStreet(address) == IF address = "streetOnly" THEN "typed" ELSE address
ParsedPlace(address)  == IF address = "streetOnly" THEN Unset ELSE address

\* getIsGermanCitizen and getStatusOption: an unanswered question is guessed.
StatusOption(citizenship, german) ==
    IF citizenship = Unset /\ german THEN "german" ELSE citizenship

\* What shouldUpdate compares a field with: the value loaded before and the one loaded now.
Compared(stored, f) ==
    CASE f = "addressInput"     -> FullAddress(stored["street"], stored["place"])
      [] f = "noFixedAddress"   -> IF stored["street"] = NoAddress THEN "yes" ELSE "no"
      [] f = "lastFixedAddress" -> stored["state"]
      [] f = "citizenship"      -> stored["citizenship"]
      [] f = "nationality"      -> Or(stored[f], IF stored["citizenship"] = "german" THEN "DE" ELSE Unset)
      [] OTHER -> stored[f]
\* What the profile, and the card where the profile is silent, put on the screen.
Synced(stored, extracted, f) ==
    LET street == Or(stored["street"], Ocr(extracted, "street"))
        place  == Or(stored["place"], Ocr(extracted, "place"))
        status == StatusOption(stored["citizenship"], IsGerman(stored, extracted))
    IN  CASE f = "addressInput"     -> FullAddress(street, place)
          [] f = "noFixedAddress"   -> IF street = NoAddress THEN "yes" ELSE "no"
          [] f = "lastFixedAddress" -> stored["state"]
          [] f = "citizenship"      -> status
          [] f = "nationality"      -> Or(stored[f], IF status = "german" THEN "DE" ELSE Unset)
          [] OTHER -> Or(stored[f], Ocr(extracted, f))
ComparedNow(stored, extracted, f) ==
    IF f \in {"addressInput", "noFixedAddress", "citizenship", "nationality"}
    THEN Synced(stored, extracted, f) ELSE Compared(stored, f)
\* The last fixed address is only taken over for somebody without one now.
Keeps(stored, f) == f = "lastFixedAddress" /\ stored["street"] # NoAddress

ShouldUpdate(local, prev, new) == new # prev /\ local \in {prev, new}

Hydrate(stored, extracted) ==
    [f \in Fields |-> IF Keeps(stored, f) THEN Unset ELSE Synced(stored, extracted, f)]
Sync(form, prev, new, extracted) ==
    [f \in Fields |->
        IF /\ ~Keeps(new, f)
           /\ ShouldUpdate(form[f], Compared(prev, f), ComparedNow(new, extracted, f))
        THEN Synced(new, extracted, f) ELSE form[f]]

NextPage(form, page) ==
    CASE page = 6 -> Overview
      [] page = 4 -> IF form["noFixedAddress"] = "yes" THEN 5 ELSE 6
      [] OTHER -> page + 1

\* The first step of the rules that lacks an answer, as a page.  The last fixed address is
\* a field of the step of the address, which is page 4.
FirstOpenPage(stored) ==
    IF stored["name"] = Unset THEN 1
    ELSE IF stored["birth"] = Unset THEN 2
    ELSE IF stored["legalGender"] = Unset THEN 3
    ELSE IF stored["street"] = Unset \/ (stored["street"] = NoAddress /\ stored["state"] = Unset) THEN 4
    ELSE IF stored["citizenship"] = Unset \/ stored["nationality"] = Unset THEN 6
    ELSE Intro
\* getNextPage: the page of the step the server names, if it answers and the page is one of these.
WizardPages(stored, page) == IF page = 6 THEN {} ELSE {FirstOpenPage(stored)} \ {Intro}

PrevPage(form, page) ==
    CASE page = 6 -> IF form["noFixedAddress"] = "yes" THEN 5 ELSE 4
      [] OTHER -> page - 1

SaveName(form)  == Restrict(form, {"name"})
SaveBirth(form) == Restrict(form, {"birth"})
\* No gender is not sent at all.
SaveGender(form) == Restrict(form, {f \in {"legalGender"} : form[f] # Unset})
SaveAddressAlone(form) == [f \in {"street", "place"} |->
    IF form["noFixedAddress"] = "yes" THEN IF f = "street" THEN NoAddress ELSE Unset
    ELSE IF f = "street" THEN ParsedStreet(form["addressInput"]) ELSE ParsedPlace(form["addressInput"])]
SaveAddress(form) ==
    IF form["noFixedAddress"] = "yes" THEN SaveAddressAlone(form)
    ELSE Merge(SaveAddressAlone(form), [f \in {"state"} |-> Unset])
SaveLastAddress(form) == [f \in {"street", "state"} |->
    IF f = "street" THEN NoAddress ELSE form["lastFixedAddress"]]
SaveCitizenship(form) == [f \in {"citizenship", "nationality"} |->
    IF f = "citizenship" THEN form[f]
    ELSE CASE form["citizenship"] = "german" -> "DE"
           [] form["citizenship"] = Unset -> Unset
           [] OTHER -> form[f]]
Payload(form, page) ==
    CASE page = 1 -> SaveName(form)    [] page = 2 -> SaveBirth(form)
      [] page = 3 -> SaveGender(form)  [] page = 4 -> SaveAddress(form)
      [] page = 5 -> SaveLastAddress(form) [] page = 6 -> SaveCitizenship(form)

\* autoVerifyIdCard: the profile as it was loaded, else the form, is verified as the card's.
Verified(form, loaded) ==
    LET known == [f \in {"name", "birth", "legalGender", "street", "place"} |->
                    LET value == Or(loaded[f], form[f])
                    IN  IF f = "legalGender" THEN Or(value, "Diverse") ELSE value]
    IN  Restrict(known, {f \in DOMAIN known : known[f] # Unset})

Ready(form, page) ==
    page = 6 => /\ form["citizenship"] # Unset
                /\ form["citizenship"] \in {"eu_5", "permit"} => form["nationality"] # Unset

Page1Name(form)  == Type(form, "name")
Page2Birth(form) == Choose(form, "birth", {Unset, "Berlin", "Rom"})
\* An option of page 3 is saved as it is chosen.
Page3Gender(form) == Choose(form, "legalGender", {"Female", "Male", "Diverse"})
ToggleNoFixed(form) ==
    IF form["noFixedAddress"] = "yes" THEN [form EXCEPT !["noFixedAddress"] = "no"]
    ELSE [form EXCEPT !["noFixedAddress"] = "yes", !["street"] = Unset, !["place"] = Unset]
Page4Address(form) ==
    {ToggleNoFixed(form)}
    \cup IF form["noFixedAddress"] = "yes" THEN {}
         ELSE Choose(form, "addressInput", {Unset, "typed", "streetOnly"})
Page5LastAddress(form) == Type(form, "lastFixedAddress")
Page6Citizenship(form) ==
    {[form EXCEPT !["citizenship"] = c, !["nationality"] = IF c = "german" THEN "DE" ELSE Unset] :
        c \in {"german", "eu_5", "permit"}}
    \cup IF form["citizenship"] \in {"eu_5", "permit"}
         THEN Choose(form, "nationality", {Unset, "FR"}) ELSE {}
Edits(form, page) ==
    CASE page = 1 -> Page1Name(form)    [] page = 2 -> Page2Birth(form)
      [] page = 3 -> {}                 [] page = 4 -> Page4Address(form)
      [] page = 5 -> Page5LastAddress(form) [] page = 6 -> Page6Citizenship(form)

\* The inputs of a page that a later profile always reaches.
Inputs(page) ==
    CASE page = 1 -> {"name"} [] page = 2 -> {"birth"} [] page = 3 -> {"legalGender"}
      [] page = 4 -> {"addressInput", "noFixedAddress"} [] page = 5 -> {}
      [] page = 6 -> {"citizenship", "nationality"}

\* A nationality goes with a citizenship, and the last address with having none now.
CitizenshipFits(stored) ==
    /\ stored["citizenship"] = Unset <=> stored["nationality"] = Unset
    /\ stored["citizenship"] = "german" => stored["nationality"] = "DE"
AddressFits(stored) == stored["state"] # Unset => stored["street"] = NoAddress
=============================================================================
