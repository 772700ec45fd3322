---------------------------- MODULE Supervision ----------------------------
(***************************************************************************)
(* The escalation queue and the two parties that answer it.                *)
(*                                                                         *)
(*   tickets   a directory of JSON files (EscalationClient), one a ticket, *)
(*             overwritten in place by whoever adjudicates it              *)
(*   cases     what a case says of its decision, on the spine              *)
(*   sweep     node_adjudicate_queue, the run the timer starts             *)
(*   console   the operator's /adjudicate and /case-decision               *)
(*             (adjudicate_api.py)                                         *)
(*                                                                         *)
(* Nothing is locked: the sweep lists the queue once, reads each case, and *)
(* writes ticket, case and timeline later; the console does the same in a  *)
(* process of its own.  A write to the spine is one step here; what can    *)
(* happen inside it is CaseSpine's subject.  Two things of it show: a read *)
(* of a case may be answered from receipts, which know no decision block,  *)
(* and append_event writes such a copy, or an older one, over the case.    *)
(* fp reads as deny; the tuning ledger and the index copy of a ticket are  *)
(* left out.                                                               *)
(***************************************************************************)
EXTENDS Naturals, FiniteSets

CONSTANTS
  Tickets,      \* the tickets ever filed: ranks of their file names
  Approvals,    \* those the responder files for a tier-2 run
  Cases,
  CaseOf,       \* the case a ticket names
  Title,        \* its title and agent, the sweep's key for repeats
  Limit,        \* groups of tickets a sweep takes up; 100 in the code
  MaxRulings,   \* bound: calls of the console
  MaxFaults     \* bound: processes that die, syncs that fail, decisions missed

Verdicts == {"approve", "deny"}

NoVerdict == "none"

ASSUME SupervisionAssumption ==
  /\ Tickets \subseteq Nat
  /\ Approvals \subseteq Tickets
  /\ CaseOf \in [Tickets -> Cases]
  /\ Limit \in Nat \ {0}
  /\ MaxRulings \in Nat
  /\ MaxFaults \in Nat

VARIABLES
  tickets,      \* the queue
  cases,        \* each case's decision block and newest supervisory event
  sweep,        \* the supervisory run at work
  console,      \* the console call at work
  human,        \* history: the decision a console call put on a case
  raced,        \* history: cases a sweep was at work on when it did
  hidden,       \* history: cases a read or a write missed the decision of since
  rulings,      \* calls of the console so far
  lapses,       \* deaths and failed syncs so far
  blinks        \* reads and writes that missed a decision so far

supervisionVars ==
  <<tickets, cases, sweep, console, human, raced, hidden, rulings, lapses, blinks>>

----------------------------------------------------------------------------
Absent == [status |-> "absent", decision |-> NoVerdict]

Open == [status |-> "open", decision |-> NoVerdict]

Adjudicated(v) == [status |-> "adjudicated", decision |-> v]

OpenTickets == {t \in Tickets : tickets[t].status = "open"}

\* Files are listed in the order of their names.
Earliest(group) == CHOOSE t \in group : \A u \in group : t <= u

Undecided == [block |-> NoVerdict, last |-> NoVerdict]

\* decide() writes the block and the adjudication event.
Decided(v) == [block |-> v, last |-> v]

\* case_decision: the block, else the newest adjudication.
Recorded(case) == IF case.block # NoVerdict THEN case.block ELSE case.last

\* sync_case_decision: a case that carries a decision is left alone.
Synced(case, v) == IF Recorded(case) = NoVerdict THEN Decided(v) ELSE case

\* The newest adjudication overrides the block: responder.run, and the sweep.
Gate(case) == IF case.last # NoVerdict THEN case.last ELSE case.block

\* Filing a ticket (EscalationClient._queue).
Filed(t) == [tickets EXCEPT ![t] = Open]

SweepIdle == [pc |-> "idle", batch |-> {}, ticket |-> 0, repeats |-> {},
              decision |-> NoVerdict, records |-> FALSE]

ConsoleIdle == [pc |-> "idle", ticket |-> 0, decision |-> NoVerdict]

SupervisionInit ==
  /\ tickets = [t \in Tickets |-> Absent]
  /\ cases = [c \in Cases |-> Undecided]
  /\ sweep = SweepIdle
  /\ console = ConsoleIdle
  /\ human = [c \in Cases |-> NoVerdict]
  /\ raced = {}
  /\ hidden = {}
  /\ rulings = 0
  /\ lapses = 0
  /\ blinks = 0

\* Router, analyst, hunt and self-heal escalate; the responder's own tickets
\* are filed in Approval.
Escalate(t) ==
  /\ t \notin Approvals
  /\ tickets[t] = Absent
  /\ tickets' = Filed(t)
  /\ UNCHANGED <<cases, sweep, console, human, raced, hidden, rulings, lapses, blinks>>

----------------------------------------------------------------------------
\* The sweep.

FirstOf(t) == Earliest({u \in OpenTickets : Title[u] = Title[t]})

\* The open tickets of the first Limit groups.
Listed ==
  {t \in OpenTickets :
     Cardinality({FirstOf(u) : u \in {w \in OpenTickets : FirstOf(w) < FirstOf(t)}}) < Limit}

SweepStart ==
  /\ sweep.pc = "idle"
  /\ OpenTickets # {}
  /\ sweep' = [SweepIdle EXCEPT !.pc = "pick", !.batch = Listed]
  /\ UNCHANGED <<tickets, cases, console, human, raced, hidden, rulings, lapses, blinks>>

Group(t) == {u \in sweep.batch : Title[u] = Title[t]}

\* The representative of the next group, and its repeats.
Picked(t) == [sweep EXCEPT !.batch = @ \ Group(t), !.ticket = t, !.repeats = Group(t) \ {t}]

\* Slip: the state of the case is not looked at.
RejudgingRead ==
  /\ sweep.pc = "pick"
  /\ sweep.batch # {}
  /\ \E v \in Verdicts :
       sweep' = [Picked(Earliest(sweep.batch)) EXCEPT
                   !.pc = "write", !.decision = v, !.records = TRUE]
  /\ UNCHANGED <<tickets, cases, console, human, raced, hidden, rulings, lapses, blinks>>

\* A read of a case is answered from receipts, or a write replaces it with a copy
\* that has no decision ...
Blink == /\ lapses + blinks < MaxFaults
         /\ blinks' = blinks + 1

\* ... and the decision of case c, if it had one, is missed.
Hides(c) == /\ Blink
            /\ hidden' = hidden \cup {c}

\* Reading the next case: a decided case's tickets get its newest decision; an
\* investigated case is decided before its ticket is; any other ticket gets
\* supervise_case's decision.  A case rebuilt from receipts is new, whatever was
\* decided on it.
SweepRead ==
  /\ sweep.pc = "pick"
  /\ sweep.batch # {}
  /\ LET t == Earliest(sweep.batch)
         case == cases[CaseOf[t]]
     IN  \/ /\ case.block # NoVerdict
            /\ sweep' = [Picked(t) EXCEPT !.pc = "write", !.decision = Gate(case)]
            /\ UNCHANGED <<hidden, blinks>>
         \/ /\ \/ case.block = NoVerdict /\ UNCHANGED <<hidden, blinks>>
               \/ case.block # NoVerdict /\ Hides(CaseOf[t])
            /\ \E pc \in {"decide", "write"}, v \in Verdicts :
                 sweep' = [Picked(t) EXCEPT !.pc = pc, !.decision = v, !.records = TRUE]
  /\ UNCHANGED <<tickets, cases, console, human, raced, rulings, lapses>>

SweepCase == CaseOf[sweep.ticket]

\* adjudicate_with_investigation.  decide() refuses a case that was decided
\* meanwhile, and the exception ends the sweep; on a case rebuilt from receipts it
\* finds nothing to refuse.
SweepDecide ==
  /\ sweep.pc = "decide"
  /\ \/ /\ \/ cases[SweepCase].block = NoVerdict /\ UNCHANGED <<hidden, blinks>>
           \/ cases[SweepCase].block # NoVerdict /\ Hides(SweepCase)
        /\ cases' = [cases EXCEPT ![SweepCase] = Decided(sweep.decision)]
        /\ sweep' = [sweep EXCEPT !.pc = "write"]
     \/ /\ cases[SweepCase].block # NoVerdict
        /\ sweep' = SweepIdle
        /\ UNCHANGED <<cases, hidden, blinks>>
  /\ UNCHANGED <<tickets, console, human, raced, rulings, lapses>>

\* adjudicate, or mark_adjudicated when the case was decided: the listed copy
\* of the ticket replaces the file.
SweepWrite ==
  /\ sweep.pc = "write"
  /\ tickets' = [tickets EXCEPT ![sweep.ticket] = Adjudicated(sweep.decision)]
  /\ sweep' = [sweep EXCEPT !.pc = IF sweep.records THEN "sync" ELSE "repeats"]
  /\ UNCHANGED <<cases, console, human, raced, hidden, rulings, lapses, blinks>>

SweepSync ==
  /\ sweep.pc = "sync"
  /\ cases' = [cases EXCEPT ![SweepCase] = Synced(@, sweep.decision)]
  /\ sweep' = [sweep EXCEPT !.pc = "repeats"]
  /\ UNCHANGED <<tickets, console, human, raced, hidden, rulings, lapses, blinks>>

\* mark_adjudicated on the repeats: no sync, whatever case they name.
SweepRepeat ==
  /\ sweep.pc = "repeats"
  /\ sweep.repeats # {}
  /\ LET t == Earliest(sweep.repeats)
     IN  /\ tickets' = [tickets EXCEPT ![t] = Adjudicated(sweep.decision)]
         /\ sweep' = [sweep EXCEPT !.repeats = @ \ {t}]
  /\ UNCHANGED <<cases, console, human, raced, hidden, rulings, lapses, blinks>>

\* The adjudication event, appended whatever the case says by now.
SweepRecord ==
  /\ sweep.pc = "repeats"
  /\ sweep.repeats = {}
  /\ cases' = IF sweep.records THEN [cases EXCEPT ![SweepCase].last = sweep.decision]
              ELSE cases
  /\ sweep' = [SweepIdle EXCEPT !.pc = "pick", !.batch = sweep.batch]
  /\ UNCHANGED <<tickets, console, human, raced, hidden, rulings, lapses, blinks>>

SweepEnd ==
  /\ sweep.pc = "pick"
  /\ sweep.batch = {}
  /\ sweep' = SweepIdle
  /\ UNCHANGED <<tickets, cases, console, human, raced, hidden, rulings, lapses, blinks>>

SweepStep == \/ SweepStart \/ SweepRead \/ SweepDecide \/ SweepWrite
             \/ SweepSync \/ SweepRepeat \/ SweepRecord \/ SweepEnd

----------------------------------------------------------------------------
\* The console.

\* The sweep is between its read of case c and its last write to it.
InSweep(c) == sweep.records /\ SweepCase = c

\* A decision of the operator reaches the case.
Ruled(c, v) ==
  /\ cases' = [cases EXCEPT ![c] = Decided(v)]
  /\ human' = [human EXCEPT ![c] = v]
  /\ raced' = IF InSweep(c) THEN raced \cup {c} ELSE raced
  /\ hidden' = hidden \ {c}

\* Slip: the verdict goes to the ticket and the ledger, not to the case.
TicketOnlyAdjudicate(t, v) ==
  /\ console.pc = "idle"
  /\ rulings < MaxRulings
  /\ rulings' = rulings + 1
  /\ tickets[t].status # "absent"
  /\ tickets' = [tickets EXCEPT ![t] = Adjudicated(v)]
  /\ UNCHANGED <<cases, sweep, console, human, raced, hidden, lapses, blinks>>

\* POST /adjudicate, on any ticket of the queue, also an adjudicated one.
ConsoleAdjudicate(t, v) ==
  /\ console.pc = "idle"
  /\ rulings < MaxRulings
  /\ rulings' = rulings + 1
  /\ tickets[t].status # "absent"
  /\ tickets' = [tickets EXCEPT ![t] = Adjudicated(v)]
  /\ console' = [pc |-> "sync", ticket |-> t, decision |-> v]
  /\ UNCHANGED <<cases, sweep, human, raced, hidden, lapses, blinks>>

ConsoleSync ==
  /\ console.pc = "sync"
  /\ LET c == CaseOf[console.ticket]
     IN  IF Recorded(cases[c]) = NoVerdict
         THEN Ruled(c, console.decision)
         ELSE UNCHANGED <<cases, human, raced, hidden>>
  /\ console' = ConsoleIdle
  /\ UNCHANGED <<tickets, sweep, rulings, lapses, blinks>>

OpenOf(c) == {t \in OpenTickets : CaseOf[t] = c}

\* POST /case-decision; decide() refuses a case it reads as decided.
ConsoleDecide(c, v) ==
  /\ console.pc = "idle"
  /\ rulings < MaxRulings
  /\ rulings' = rulings + 1
  /\ \/ cases[c].block = NoVerdict /\ UNCHANGED blinks
     \/ cases[c].block # NoVerdict /\ Blink
  /\ Ruled(c, v)
  /\ console' = IF OpenOf(c) = {} THEN console
                ELSE [pc |-> "close", ticket |-> Earliest(OpenOf(c)), decision |-> v]
  /\ UNCHANGED <<tickets, sweep, lapses>>

\* ... and then the first open ticket of the case; its sync finds a decision.
ConsoleClose ==
  /\ console.pc = "close"
  /\ tickets' = [tickets EXCEPT ![console.ticket] = Adjudicated(console.decision)]
  /\ console' = ConsoleIdle
  /\ UNCHANGED <<cases, sweep, human, raced, hidden, rulings, lapses, blinks>>

----------------------------------------------------------------------------
\* append_event, by whoever has an event for the case: its copy of the case was
\* rebuilt from receipts, or read before the decision, and has no block.  The
\* adjudication event is a point of its own and stays.
Overwrite(c) ==
  /\ cases[c].block # NoVerdict
  /\ Hides(c)
  /\ cases' = [cases EXCEPT ![c].block = NoVerdict]
  /\ UNCHANGED <<tickets, sweep, console, human, raced, rulings, lapses>>

\* A process dies, or one of its writes raises out of it.
Die ==
  /\ lapses + blinks < MaxFaults
  /\ lapses' = lapses + 1
  /\ \/ sweep.pc # "idle" /\ sweep' = SweepIdle /\ UNCHANGED console
     \/ console.pc # "idle" /\ console' = ConsoleIdle /\ UNCHANGED sweep
  /\ UNCHANGED <<tickets, cases, human, raced, hidden, rulings, blinks>>

\* sync_case_decision fails and never raises.
LoseSync ==
  /\ lapses + blinks < MaxFaults
  /\ lapses' = lapses + 1
  /\ \/ sweep.pc = "sync" /\ sweep' = [sweep EXCEPT !.pc = "repeats"] /\ UNCHANGED console
     \/ console.pc = "sync" /\ console' = ConsoleIdle /\ UNCHANGED sweep
  /\ UNCHANGED <<tickets, cases, human, raced, hidden, rulings, blinks>>

SupervisionNext ==
  \/ \E t \in Tickets : Escalate(t)
  \/ SweepStep
  \/ \E t \in Tickets, v \in Verdicts : ConsoleAdjudicate(t, v)
  \/ ConsoleSync
  \/ \E c \in Cases, v \in Verdicts : ConsoleDecide(c, v)
  \/ ConsoleClose
  \/ \E c \in Cases : Overwrite(c)
  \/ Die
  \/ LoseSync

----------------------------------------------------------------------------
\* Properties.

SweepTyped == sweep \in [pc : {"idle", "pick", "decide", "write", "sync", "repeats"},
                         batch : SUBSET Tickets, ticket : Tickets \cup {0},
                         repeats : SUBSET Tickets, decision : Verdicts \cup {NoVerdict},
                         records : BOOLEAN]

\* responder.run: "the human/supervisor decision is the authority".  Once the
\* operator denied a case, the responder's gate stays shut.  Two things can open
\* it: a sweep that had read the case before the denial, and, with no race at
\* all, a read of the case since then that receipts answered or an event written
\* with a copy of the case that has no decision.
DenialIsAuthority ==
  \A c \in Cases \ (raced \cup hidden) : human[c] = "deny" => Gate(cases[c]) = "deny"

AnsweredCases == {CaseOf[t] : t \in {u \in Tickets : tickets[u].status = "adjudicated"}}

InFlight == (IF sweep.pc \in {"sync", "repeats"} THEN {SweepCase} ELSE {})
            \cup (IF console.pc = "sync" THEN {CaseOf[console.ticket]} ELSE {})

Orphans == {c \in AnsweredCases \ InFlight : Recorded(cases[c]) = NoVerdict}

\* The cases that share the title of a ticket with another one: a sweep that
\* answers both tickets as repeats writes to one case only.
Crossed ==
  {c \in Cases : \E t, u \in Tickets : /\ Title[t] = Title[u]
                                      /\ CaseOf[t] = c
                                      /\ CaseOf[u] # c}

\* sync_case_decision: a human-approved ticket must not leave "its case
\* state=new permanently".  A case with an answered ticket and no decision is paid
\* for by a death or a failed sync, unless it shares a title with another case.
OrphansArePaid == Cardinality(Orphans \ Crossed) <= lapses

\* What the sweep has listed and not yet answered.
Held == sweep.batch \cup sweep.repeats
        \cup (IF sweep.pc \in {"decide", "write"} THEN {sweep.ticket} ELSE {})

\* node_adjudicate_queue: the repeats must not "stay open forever".  A sweep that
\* is not cut short lets go of a ticket it listed only when it is answered.
SweepAnswersAll ==
  [][\A t \in Held \ Held' : tickets'[t].status = "adjudicated" \/ sweep'.pc = "idle"]_supervisionVars

\* sync_case_decision: "every worker that records a decision records it where
\* the readers look".  With no fault at all, an answered ticket's case has a
\* decision once sweep and console are done.
DecisionReachesCase == lapses = 0 => Orphans = {}

\* supervisory.py: "Tier 2 recommendations require human confirm".  The sweep
\* alone never approves a tier-2 run.
TierTwoNeedsHuman ==
  [][\A t \in Approvals :
       tickets'[t].decision = "approve" /\ tickets[t].decision # "approve" =>
         sweep' = sweep]_supervisionVars
=============================================================================
