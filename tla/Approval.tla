------------------------------ MODULE Approval ------------------------------
(***************************************************************************)
(* The responder (agents/responder.py) beside the supervision of its       *)
(* tickets.  run() is called for an alert of a case, by the router and by  *)
(* hand: it passes the gate, looks for an approved tier-2 run of the case  *)
(* and executes that run's stored payload, or else selects a playbook,     *)
(* which for tier 2 files an approval ticket.                              *)
(*                                                                         *)
(* A run is the ticket that carries it.  Executing is an effect on other   *)
(* hosts; what is kept of it is how often each step was done.  A dry run   *)
(* changes nothing and is left out.                                        *)
(***************************************************************************)
EXTENDS Supervision

CONSTANTS
  Nested,       \* tickets whose run lies under `detail`, where the lookup reads it
  Protected,    \* tickets whose payload names a protected target
  Responders,   \* the processes that call run()
  Steps,        \* steps of a run
  FlakyLookup,  \* the queue may be unreadable to a responder
  MaxCrashes    \* bound: responders that die, marks that are lost

ASSUME ApprovalAssumption ==
  /\ Cases # {}
  /\ IsFiniteSet(Responders)
  /\ Steps \in Nat \ {0}
  /\ FlakyLookup \in BOOLEAN
  /\ MaxCrashes \in Nat

VARIABLES
  responder,    \* what each responder is at
  executed,     \* history: how often each step of a run was executed
  marked,       \* runs with a responder_execution event on their case
  expired,      \* runs past their expiry
  crashes       \* responders that died and marks lost so far

responderVars == <<responder, executed, marked, expired, crashes>>

vars == <<supervisionVars, responderVars>>

----------------------------------------------------------------------------
Idle == [pc |-> "idle", case |-> CHOOSE c \in Cases : TRUE, runs |-> {}, run |-> 0, step |-> 0]

Init ==
  /\ SupervisionInit
  /\ responder = [r \in Responders |-> Idle]
  /\ executed = [t \in Approvals |-> [s \in 1..Steps |-> 0]]
  /\ marked = {}
  /\ expired = {}
  /\ crashes = 0

At(r, pc) == responder[r].pc = pc

Becomes(r, state) == responder' = [responder EXCEPT ![r] = state]

\* run() up to the gate, which lets an approved case pass.  An infra case, which
\* the router approves itself, is not among Cases.
Start(r, c) ==
  /\ At(r, "idle")
  /\ Gate(cases[c]) = "approve"
  /\ Becomes(r, [Idle EXCEPT !.pc = "lookup", !.case = c])
  /\ UNCHANGED <<executed, marked, expired, crashes>>

\* list_tickets, and what of it the lookup takes for an approved run.
Lookup(r) ==
  /\ At(r, "lookup")
  /\ Becomes(r, [responder[r] EXCEPT
                   !.pc = "marks",
                   !.runs = {t \in Approvals \cap Nested :
                               /\ CaseOf[t] = responder[r].case
                               /\ tickets[t] = Adjudicated("approve")}])
  /\ UNCHANGED <<executed, marked, expired, crashes>>

\* The lookup raises: no run.
LookupFails(r) ==
  /\ FlakyLookup
  /\ At(r, "lookup")
  /\ Becomes(r, [responder[r] EXCEPT !.pc = "select"])
  /\ UNCHANGED <<executed, marked, expired, crashes>>

\* Slip: the execution events of the case are not read.
UnmarkedRuns(r) == responder[r].runs \ expired

Consumable(r) == responder[r].runs \ (marked \cup expired)

\* The case's execution events, then the first run that is neither executed nor
\* expired; one with a protected target ends the call.
ReadMarks(r) ==
  /\ At(r, "marks")
  /\ LET run == Earliest(Consumable(r))
     IN  Becomes(r, IF Consumable(r) = {} THEN [responder[r] EXCEPT !.pc = "select", !.runs = {}]
                    ELSE IF run \in Protected THEN Idle
                    ELSE [responder[r] EXCEPT !.pc = "execute", !.runs = {}, !.run = run,
                                              !.step = 1])
  /\ UNCHANGED <<executed, marked, expired, crashes>>

\* The case cannot be read: fail closed.
MarksUnreadable(r) ==
  /\ At(r, "marks")
  /\ Becomes(r, Idle)
  /\ UNCHANGED <<executed, marked, expired, crashes>>

\* run_step; the loop goes on whether or not the step worked.
Execute(r) ==
  /\ At(r, "execute")
  /\ executed' = [executed EXCEPT ![responder[r].run][responder[r].step] = @ + 1]
  /\ Becomes(r, IF responder[r].step < Steps
                THEN [responder[r] EXCEPT !.step = @ + 1]
                ELSE [responder[r] EXCEPT !.pc = "mark", !.step = @ + 1])
  /\ UNCHANGED <<marked, expired, crashes>>

Mark(r) ==
  /\ At(r, "mark")
  /\ marked' = marked \cup {responder[r].run}
  /\ Becomes(r, Idle)
  /\ UNCHANGED <<executed, expired, crashes>>

\* The responder dies, or its execution event is lost and the loss swallowed.
Crash(r) ==
  /\ crashes < MaxCrashes
  /\ At(r, "execute") \/ At(r, "mark")
  /\ crashes' = crashes + 1
  /\ Becomes(r, Idle)
  /\ UNCHANGED <<executed, marked, expired>>

\* Selection, guard and tier: a tier-2 playbook files a ticket ...
File(r, t) ==
  /\ At(r, "select")
  /\ t \in Approvals
  /\ CaseOf[t] = responder[r].case
  /\ tickets[t] = Absent
  /\ tickets' = Filed(t)
  /\ Becomes(r, Idle)
  /\ UNCHANGED <<cases, sweep, console, human, raced, hidden, rulings, lapses, blinks>>
  /\ UNCHANGED <<executed, marked, expired, crashes>>

\* ... and without a candidate, with a protected target, or for a lower tier,
\* none is filed.
Pass(r) ==
  /\ At(r, "select")
  /\ Becomes(r, Idle)
  /\ UNCHANGED <<executed, marked, expired, crashes>>

\* approval_expiry_min passes.
Expire(t) ==
  /\ t \in Approvals \ expired
  /\ tickets[t] # Absent
  /\ expired' = expired \cup {t}
  /\ UNCHANGED <<responder, executed, marked, crashes>>

RespondStep(r) ==
  \/ \E c \in Cases : Start(r, c)
  \/ Lookup(r) \/ LookupFails(r)
  \/ ReadMarks(r) \/ MarksUnreadable(r)
  \/ Execute(r) \/ Mark(r) \/ Crash(r)
  \/ Pass(r)

Next ==
  \/ SupervisionNext /\ UNCHANGED responderVars
  \/ (\E r \in Responders : RespondStep(r)) /\ UNCHANGED supervisionVars
  \/ \E r \in Responders, t \in Tickets : File(r, t)
  \/ (\E t \in Approvals : Expire(t)) /\ UNCHANGED supervisionVars

Spec == Init /\ [][Next]_vars

----------------------------------------------------------------------------
\* Properties.

RespondersTyped ==
  responder \in [Responders -> [pc : {"idle", "lookup", "marks", "execute", "mark", "select"},
                                case : Cases, runs : SUBSET Approvals,
                                run : Approvals \cup {0}, step : 0..(Steps + 1)]]

\* The shape of the queue, of the cases and of every process.
TypeOK ==
  /\ tickets \in [Tickets -> {Absent, Open} \cup {Adjudicated(v) : v \in Verdicts}]
  /\ cases \in [Cases -> [block : Verdicts \cup {NoVerdict}, last : Verdicts \cup {NoVerdict}]]
  /\ SweepTyped
  /\ console \in [pc : {"idle", "sync", "close"}, ticket : Tickets \cup {0},
                  decision : Verdicts \cup {NoVerdict}]
  /\ human \in [Cases -> Verdicts \cup {NoVerdict}]
  /\ raced \subseteq Cases
  /\ hidden \subseteq Cases
  /\ rulings \in 0..MaxRulings
  /\ lapses \in 0..MaxFaults
  /\ blinks \in 0..MaxFaults
  /\ RespondersTyped
  /\ executed \in [Approvals -> [1..Steps -> Nat]]
  /\ marked \subseteq Approvals
  /\ expired \subseteq Approvals
  /\ crashes \in 0..MaxCrashes

\* _consume_approved_run executes an approved run "ONCE".  What holds: a step
\* is executed once per responder that may be at the case at the same time, and
\* once more per responder that died or lost its mark.
ExecutionIsPaid ==
  \A t \in Approvals, s \in 1..Steps :
    executed[t][s] <= Cardinality(Responders) + crashes

\* responder.run: "an approved case with a stored tier-2 run executes that exact
\* reviewed payload ONCE (no new ticket is issued)".  A lookup that can read the
\* queue finds every approved, unexpired, unexecuted run of its case.
NoTicketForApproved ==
  [][\A r \in Responders : At(r, "lookup") /\ responder'[r].pc = "marks" =>
       \A t \in Approvals \ (marked \cup expired) :
         CaseOf[t] = responder[r].case /\ tickets[t] = Adjudicated("approve") =>
           t \in responder'[r].runs]_vars
=============================================================================
