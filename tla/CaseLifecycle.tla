--------------------------- MODULE CaseLifecycle ---------------------------
(***************************************************************************)
(* The case lifecycle of agents/tools/case_tools.py as constant-level      *)
(* operators: the states, the transition table, the normalisation of a     *)
(* stored state and the advance an appended event causes.  No variables:   *)
(* CaseMachine is the state machine a reader is promised, CaseSpine the    *)
(* store that has to keep the promise.                                     *)
(***************************************************************************)

\* CASE_STATES.  "reopened" is a row of the table but not a member.
CaseStates == {"new", "triage", "investigating", "awaiting_decision",
               "decided", "closed", "archived"}

\* Everything a stored `state` field can hold: transition() stores to_state
\* as it was given, so "reopened" does reach the store.
StoredStates == CaseStates \cup {"reopened"}

\* _CASE_TRANSITIONS
Transitions ==
  [s \in StoredStates |->
     CASE s = "new"               -> {"triage", "investigating", "decided", "closed"}
       [] s = "triage"            -> {"investigating", "awaiting_decision", "decided", "closed"}
       [] s = "investigating"     -> {"awaiting_decision", "decided", "closed"}
       [] s = "awaiting_decision" -> {"decided", "closed"}
       [] s = "decided"           -> {"closed", "reopened"}
       [] s = "closed"            -> {"archived", "reopened"}
       [] s = "archived"          -> {}
       [] s = "reopened"          -> {"triage", "investigating", "awaiting_decision",
                                      "decided", "closed"}]

\* _normalize_state: a state outside CASE_STATES reads as "new", which is
\* what happens to "reopened".
Normalize(s) == IF s \in CaseStates THEN s ELSE "new"

\* The moves the code accepts from a stored state: the row of the NORMALISED
\* state, so the row of "reopened" is never the one consulted.
Moves(s) == Transitions[Normalize(s)]

\* can_decide
CanDecide(s) == "decided" \in Moves(s)

\* _derive_status
Status(s) == IF s \in {"closed", "archived"} THEN "closed" ELSE "open"

\* The opportunistic advance of append_event: the state an event of the given
\* type wants, and the state it gets, the stored one when the event moves
\* nothing.
Wanted(s, type) ==
  CASE type = "investigation" /\ Normalize(s) \in {"new", "triage"} -> "investigating"
    [] type \in {"escalate", "verdict"} /\ Normalize(s) \in {"triage", "investigating"}
                                                              -> "awaiting_decision"
    [] OTHER -> "none"

Advance(s, type) == IF Wanted(s, type) \in Moves(s) THEN Wanted(s, type) ELSE s
=============================================================================
