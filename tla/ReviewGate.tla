----------------------------- MODULE ReviewGate -----------------------------
(***************************************************************************)
(* What the human review workflow promises of a candidate, and no more:    *)
(* its status, the last human decision on it, and whether its evidence     *)
(* holds an open conflict (docs/REVIEW_WORKFLOW.md as services/review.py,  *)
(* conflicts.py, extraction.py and exporting.py carry it out).             *)
(***************************************************************************)

VARIABLES
  status,    \* review_status, "absent" before the first extraction
  decision,  \* decision of the last review, or "none"
  open       \* an evidence conflict is unresolved

gateVars == <<status, decision, open>>

Human == {"approved", "rejected", "exported"}

Outcome == [approve |-> "approved", reject |-> "rejected",
            return_to_review |-> "needs_review"]

Init ==
  /\ status = "absent"
  /\ decision = "none"
  /\ open = FALSE

\* New evidence: a human status stands unless the evidence conflicts.
Collect ==
  /\ open' \in BOOLEAN
  /\ \/ open' /\ status' = "needs_review"
     \/ ~ open' /\ status \in Human /\ status' = status
     \/ ~ open' /\ status \notin Human /\ status' \in {"collected", "needs_review"}
  /\ UNCHANGED decision

\* A reviewer settles or reopens a conflict: the candidate is reviewed again.
Settle ==
  /\ status # "absent"
  /\ open' \in BOOLEAN
  /\ status' = "needs_review"
  /\ UNCHANGED decision

Decide(d) ==
  /\ status # "absent"
  /\ d = "approve" => ~ open
  /\ decision' = d
  /\ status' = Outcome[d]
  /\ UNCHANGED open

Ship ==
  /\ status \in {"approved", "exported"}
  /\ ~ open
  /\ status' = "exported"
  /\ UNCHANGED <<decision, open>>

Next == Collect \/ Settle \/ Ship \/ \E d \in DOMAIN Outcome : Decide(d)

Spec == Init /\ [][Next]_gateVars
=============================================================================
