----------------------------- MODULE FormFields -----------------------------
(***************************************************************************)
(* What the questionnaires of the profile share.  A form and the stored    *)
(* section are functions from fields to strings; a field that is           *)
(* undefined, null or blank is Unset, since sanitizeDraftPayload sends a   *)
(* blank as null and the views read null as a blank.  Fields that are only *)
(* ever filled in and sent together are one field here.                    *)
(***************************************************************************)
EXTENDS Integers, Sequences, FiniteSets, Functions, TLC

Unset == ""
NaN == "NaN"     \* a number field that was emptied, a sum with an amount that is none
Intro == 0       \* the page before the first
Overview == 99   \* the page after the last

YesNo == {"yes", "no"}
Blank(fields) == [f \in fields |-> Unset]
Filled(form, fields) == \A f \in fields : form[f] # Unset

\* The forms after one choice, and after typing into or clearing a field.
Choose(form, field, options) == {[form EXCEPT ![field] = o] : o \in options}
Type(form, field) == {[form EXCEPT ![field] = t] : t \in {Unset, "typed"}}

\* sanitizeDraftPayload: a blank is sent as null.  toSnakeCase renames only.
Sanitized(payload) == payload

\* The schema throws on a number that is none before anything is sent.
Sendable(payload) == \A f \in DOMAIN payload : payload[f] # NaN

\* POST /profile: the fields that are sent replace the stored ones.
Merge(stored, payload) ==
    [f \in DOMAIN stored \cup DOMAIN payload |->
        IF f \in DOMAIN payload THEN payload[f] ELSE stored[f]]
=============================================================================
