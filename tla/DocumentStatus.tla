-------------------------- MODULE DocumentStatus --------------------------
(***************************************************************************)
(* What the status column of user_documents promises to its readers: a     *)
(* document is processed once, may be reviewed only as the outcome of that *)
(* processing, and once deleted never comes back.                          *)
(***************************************************************************)
CONSTANT Docs

VARIABLE status

States == {"none", "processing", "ready_for_review", "verified", "failed", "deleted"}

\* Where a status may go.  Nothing returns to processing, a document that failed or was
\* verified is never offered for review again, and none of the late writers revives a row.
Follows ==
  [none             |-> {"processing"},
   processing       |-> {"ready_for_review", "verified", "failed", "deleted"},
   ready_for_review |-> {"verified", "failed", "deleted"},
   verified         |-> {"failed", "deleted"},
   failed           |-> {"verified", "deleted"},
   deleted          |-> {}]

Init == status = [d \in Docs |-> "none"]

\* One transaction may move several documents.
Next ==
  /\ status' \in [Docs -> States]
  /\ \A d \in Docs : status'[d] = status[d] \/ status'[d] \in Follows[status[d]]

Spec == Init /\ [][Next]_status
=============================================================================
