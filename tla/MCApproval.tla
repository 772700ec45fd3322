----------------------------- MODULE MCApproval -----------------------------
(***************************************************************************)
(* Approval for TLC: a few tickets, their cases and their titles.          *)
(***************************************************************************)
EXTENDS Approval, TLC

CONSTANTS r1, r2

\* The two responders run the same code and know nothing of each other.
Alike == Permutations(Responders)

\* Ticket 1 escalates the case; 2 and 3 carry runs of one playbook.
OneCase == [t \in Tickets |-> "case"]

TwoTitles == [t \in Tickets |-> IF t \in Approvals THEN "approval" ELSE "alert"]

\* Two alerts of one rule, in cases of their own.
OwnCase == [t \in Tickets |-> IF t = 1 THEN "case" ELSE "other"]

OneTitle == [t \in Tickets |-> "alert"]
=============================================================================
