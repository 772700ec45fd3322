---------------------------- MODULE CaseMachine ----------------------------
(***************************************************************************)
(* What the case spine promises its readers, with nothing of how it stores *)
(* a case: one lifecycle position and one verdict, which move only along   *)
(* the transition table.  CaseSpine implements it while one writer is at   *)
(* work (CaseSpineProofs proves it, the run serial checks it).           *)
(***************************************************************************)
EXTENDS CaseLifecycle

CONSTANT Verdicts       \* what decide() can record

VARIABLES state,        \* the lifecycle position
          verdict       \* the decision in force, NoVerdict before the first

NoVerdict == "none"

Init == state = "new" /\ verdict = NoVerdict

\* transition(), reopen(), close_case(): any legal move but a decision.
Move(to) == /\ to \in Moves(state) \ {"decided"}
            /\ state' = to
            /\ UNCHANGED verdict

\* decide(): position and verdict change together.
Decide(v) == /\ CanDecide(state)
             /\ state' = "decided"
             /\ verdict' = v

\* append_event(): an event may advance the position, never the verdict.
Event(type) == /\ state' = Advance(state, type)
               /\ UNCHANGED verdict

Next == \/ \E to \in StoredStates : Move(to)
        \/ \E v \in Verdicts : Decide(v)
        \/ \E type \in {"investigation", "escalate", "verdict"} : Event(type)

vars == <<state, verdict>>

Spec == Init /\ [][Next]_vars
=============================================================================
