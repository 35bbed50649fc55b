--------------------------- MODULE MCEligibility ---------------------------
(* An instance of EligibilityFlow for TLC: every branch of the graph, with  *)
(* few values in each question.                                             *)
EXTENDS EligibilityFlow

\* The first asker reaches the retirement age of 67 on the second day, the second is 29.
TwoDays == << <<2031, 3, 14>>, <<2031, 3, 15>> >>

Few == [q \in Questions |->
    CASE q = "household"      -> {"SINGLE", "COUPLE_WITH_CHILDREN"}
      [] q = "children"       -> {<<2022, 6, 1>>}
      [] q = "birthdate"      -> {<<1964, 3, 15>>, <<2001, 5, 2>>}
      [] q = "work-capacity"  -> {"FULL", "PERMANENTLY_REDUCED"}
      [] q = "gross-income"   -> {1000}
      [] q = "net-income"     -> {1163}
      [] q = "warm-rent"      -> {600}
      [] q = "assets"         -> {"FROM_10000_TO_12500"}
      [] q = "citizenship"    -> {"GERMAN", "NON_EU"}
      [] q = "residence-status" -> {"YES"}
      [] q = "benefits"       -> {"NO"}
      [] OTHER                -> {"YES", "NO"}]

=============================================================================
